---- MODULE Spec2Model ----
(***************************************************************************)
(* A model of the CatLink command-line client: the API client of           *)
(* catlink_cli/api.py (signed requests, response validation, login,        *)
(* multi-region login, single-shot re-authentication, typed operations)    *)
(* and the credential store it keeps in the system keyring.                *)
(*                                                                         *)
(* Python values are modelled as follows.                                  *)
(*   str            a TLA+ string                                          *)
(*   None           the string None (for str-or-None values) or the empty  *)
(*                  function NoDict (for dict-or-None values)              *)
(*   dict (JSON)    a function whose domain is the set of keys present     *)
(*   dict (params)  a sequence of <<key, value>> pairs in insertion order  *)
(*   list           a sequence                                             *)
(*   exception      a record [type, message, code]                         *)
(* A call either returns a value or raises: [kind |-> "return", value] or  *)
(* [kind |-> "raise", exc].                                                *)
(***************************************************************************)
EXTENDS Integers, Sequences, FiniteSets, TLC

VARIABLES
    api_base,   \* CatLinkAPI.api_base of the client
    token,      \* CatLinkAPI.token of the client
    store,      \* the keyring entries of service "catlink-cli": key -> value
    call        \* the operation that has just run: its arguments, the requests
                \* it dispatched and its outcome (NoCall between operations)

vars == <<api_base, token, store, call>>

(***************************************************************************)
(* Python helpers                                                          *)
(***************************************************************************)
None == "<None>"

NoDict == <<>>

Truthy(v) == v # None /\ v # ""

Get(d, k) == IF k \in DOMAIN d THEN d[k] ELSE None

GetDefault(d, k, default) == IF k \in DOMAIN d THEN d[k] ELSE default

Or(a, b) == IF Truthy(a) THEN a ELSE b

Return(v) == [kind |-> "return", value |-> v]

Raise(e) == [kind |-> "raise", exc |-> e]

CatLinkAPIError(message, code) ==
    [type |-> "CatLinkAPIError", message |-> message, code |-> code]

\* httpx.HTTPError raised by the transport (connect, timeout, TLS)
HTTPError == [type |-> "httpx.HTTPError", message |-> "connection failed", code |-> 0]

\* json.JSONDecodeError (a ValueError) raised by resp.json() on a body that is not JSON
JSONDecodeError ==
    [type |-> "json.JSONDecodeError", message |-> "Expecting value", code |-> 0]

RECURSIVE rstrip(_, _)
rstrip(s, ch) ==
    IF Len(s) > 0 /\ SubSeq(s, Len(s), Len(s)) = ch
    THEN rstrip(SubSeq(s, 1, Len(s) - 1), ch)
    ELSE s

RECURSIVE lstrip(_, _)
lstrip(s, ch) ==
    IF Len(s) > 0 /\ SubSeq(s, 1, 1) = ch
    THEN lstrip(SubSeq(s, 2, Len(s)), ch)
    ELSE s

startswith(s, prefix) ==
    Len(s) >= Len(prefix) /\ SubSeq(s, 1, Len(prefix)) = prefix

RECURSIVE join(_, _)
join(sep, parts) ==
    IF Len(parts) = 0 THEN ""
    ELSE IF Len(parts) = 1 THEN parts[1]
    ELSE parts[1] \o sep \o join(sep, Tail(parts))

\* d[k] = v on an insertion-ordered dict: an existing key keeps its position
DictSet(d, k, v) ==
    IF \E i \in 1..Len(d) : d[i][1] = k
    THEN [i \in 1..Len(d) |-> IF d[i][1] = k THEN <<k, v>> ELSE d[i]]
    ELSE Append(d, <<k, v>>)

DictKeys(d) == {d[i][1] : i \in 1..Len(d)}

DictGet(d, k) ==
    IF k \in DictKeys(d) THEN d[CHOOSE i \in 1..Len(d) : d[i][1] = k][2] ELSE None

(***************************************************************************)
(* const.py                                                                *)
(***************************************************************************)
DEFAULT_API_BASE == "https://app.catlinks.cn/api/"

API_SERVERS ==
    << <<"global", "https://app.catlinks.cn/api/">>,
       <<"china", "https://app-sh.catlinks.cn/api/">>,
       <<"usa", "https://app-usa.catlinks.cn/api/">>,
       <<"singapore", "https://app-sgp.catlinks.cn/api/">> >>

SIGN_KEY == "00109190907746a7ad0e2139b6d09ce47551770157fe4ac5922f3a5454c82712"

KEYRING_TOKEN_KEY == "token"

KEYRING_PHONE_KEY == "phone"

KEYRING_IAC_KEY == "phone_iac"

KEYRING_API_BASE_KEY == "api_base"

\* imported by api.py from const.py; its value is the key name of the
\* credential persistence format
KEYRING_VERIFY_KEY == "verify"

Regions == {API_SERVERS[i][1] : i \in 1..Len(API_SERVERS)}

\* API_SERVERS.get(region, default)
ServerOf(region, default) ==
    IF region \in Regions
    THEN API_SERVERS[CHOOSE i \in 1..Len(API_SERVERS) : API_SERVERS[i][1] = region][2]
    ELSE default

(***************************************************************************)
(* Module-level helpers of api.py                                          *)
(***************************************************************************)
_region_key(key, region) == key \o ":" \o region

_region_from_api_base(base) ==
    LET normalized == rstrip(base, "/") \o "/"
        hits == {i \in 1..Len(API_SERVERS) : API_SERVERS[i][2] = normalized}
    IN  IF hits = {} THEN None
        ELSE API_SERVERS[CHOOSE i \in hits : \A j \in hits : i <= j][1]

(***************************************************************************)
(* The keyring                                                             *)
(***************************************************************************)
get_password(st, key) == IF key \in DOMAIN st THEN st[key] ELSE None

set_password(st, key, value) ==
    [k \in DOMAIN st \cup {key} |-> IF k = key THEN value ELSE st[k]]

\* keyring.delete_password inside try/except PasswordDeleteError: pass
delete_password(st, key) == [k \in DOMAIN st \ {key} |-> st[k]]

\* str(verify)
StrBool(b) == IF b THEN "True" ELSE "False"

(***************************************************************************)
(* Credential store (api.py, module level)                                 *)
(***************************************************************************)
\* the five keyring entries of one record; suffix is "" or ":<region>"
SaveRecord(st, suffix, tok, phone, phone_iac, base, verify) ==
    set_password(
      set_password(
        set_password(
          set_password(
            set_password(st, KEYRING_TOKEN_KEY \o suffix, tok),
            KEYRING_PHONE_KEY \o suffix, phone),
          KEYRING_IAC_KEY \o suffix, phone_iac),
        KEYRING_API_BASE_KEY \o suffix, base),
      KEYRING_VERIFY_KEY \o suffix, StrBool(verify))

\* a variant that writes the legacy record only
SaveRegion_Skip(st, region, tok, phone, phone_iac, base, verify) == st

\* save_credentials after the legacy record is written (st) and
\* region = _region_from_api_base(api_base)
SaveRegion(st, region, tok, phone, phone_iac, base, verify) ==
    IF Truthy(region)
    THEN SaveRecord(st, _region_key("", region), tok, phone, phone_iac, base, verify)
    ELSE st

save_credentials(st, tok, phone, phone_iac, base, verify) ==
    SaveRegion(SaveRecord(st, "", tok, phone, phone_iac, base, verify),
               _region_from_api_base(base), tok, phone, phone_iac, base, verify)

\* a variant that takes the legacy token when the region has none
_load_credentials_for_region_LegacyToken(st, region) ==
    LET tok == Or(get_password(st, _region_key(KEYRING_TOKEN_KEY, region)),
                  get_password(st, KEYRING_TOKEN_KEY))
    IN  IF ~Truthy(tok) THEN NoDict
        ELSE [token |-> tok,
              phone |-> Or(get_password(st, KEYRING_PHONE_KEY), ""),
              phone_iac |-> Or(get_password(st, KEYRING_IAC_KEY), "86"),
              api_base |-> Or(get_password(st, _region_key(KEYRING_API_BASE_KEY, region)),
                              ServerOf(region, DEFAULT_API_BASE)),
              verify |-> get_password(st, KEYRING_VERIFY_KEY) # "False"]

_load_credentials_for_region(st, region) ==
    LET tok == get_password(st, _region_key(KEYRING_TOKEN_KEY, region))
        v0 == get_password(st, _region_key(KEYRING_VERIFY_KEY, region))
        verify_str == IF v0 = None THEN get_password(st, KEYRING_VERIFY_KEY) ELSE v0
    IN  IF ~Truthy(tok) THEN NoDict
        ELSE [token |-> tok,
              phone |-> Or(Or(get_password(st, _region_key(KEYRING_PHONE_KEY, region)),
                              get_password(st, KEYRING_PHONE_KEY)), ""),
              phone_iac |-> Or(Or(get_password(st, _region_key(KEYRING_IAC_KEY, region)),
                                  get_password(st, KEYRING_IAC_KEY)), "86"),
              api_base |-> Or(get_password(st, _region_key(KEYRING_API_BASE_KEY, region)),
                              ServerOf(region, DEFAULT_API_BASE)),
              verify |-> IF verify_str # None THEN verify_str # "False" ELSE TRUE]

_load_legacy_credentials(st) ==
    LET tok == get_password(st, KEYRING_TOKEN_KEY)
        verify_str == get_password(st, KEYRING_VERIFY_KEY)
    IN  IF ~Truthy(tok) THEN NoDict
        ELSE [token |-> tok,
              phone |-> Or(get_password(st, KEYRING_PHONE_KEY), ""),
              phone_iac |-> Or(get_password(st, KEYRING_IAC_KEY), "86"),
              api_base |-> Or(get_password(st, KEYRING_API_BASE_KEY), DEFAULT_API_BASE),
              verify |-> IF verify_str # None THEN verify_str # "False" ELSE TRUE]

\* a variant that falls back to the legacy record when the region has none
_load_credentials_LegacyFallback(st, region) ==
    LET creds == IF Truthy(region) THEN _load_credentials_for_region(st, region)
                 ELSE NoDict
    IN  IF creds # NoDict THEN creds ELSE _load_legacy_credentials(st)

\* a variant that gives up when the resolved region has no record
_load_credentials_NoFallback(st, region) ==
    IF Truthy(region) THEN _load_credentials_for_region(st, region)
    ELSE IF Truthy(get_password(st, KEYRING_API_BASE_KEY))
            /\ Truthy(_region_from_api_base(get_password(st, KEYRING_API_BASE_KEY)))
    THEN _load_credentials_for_region(
             st, _region_from_api_base(get_password(st, KEYRING_API_BASE_KEY)))
    ELSE _load_legacy_credentials(st)

\* region is a region name or None
_load_credentials(st, region) ==
    IF Truthy(region) THEN _load_credentials_for_region(st, region)
    ELSE LET base == get_password(st, KEYRING_API_BASE_KEY)
             region_name == IF Truthy(base) THEN _region_from_api_base(base) ELSE None
             creds == IF Truthy(region_name)
                      THEN _load_credentials_for_region(st, region_name)
                      ELSE NoDict
         IN  IF creds # NoDict THEN creds ELSE _load_legacy_credentials(st)

\* _load_all_credentials: for region in API_SERVERS, creds collected so far
RECURSIVE LoadAllLoop(_, _, _)
LoadAllLoop(st, i, creds) ==
    IF i > Len(API_SERVERS) THEN creds
    ELSE LoadAllLoop(st, i + 1,
                     IF _load_credentials_for_region(st, API_SERVERS[i][1]) # NoDict
                     THEN Append(creds,
                                 <<API_SERVERS[i][1],
                                   _load_credentials_for_region(st, API_SERVERS[i][1])>>)
                     ELSE creds)

\* a variant that lists the legacy record after the regions' records
LoadAllFallback_AlwaysLegacy(creds, legacy) ==
    IF legacy # NoDict
    THEN Append(creds, <<Or(_region_from_api_base(legacy.api_base), "default"), legacy>>)
    ELSE creds

\* _load_all_credentials after the loop: legacy is _load_legacy_credentials()
LoadAllFallback(creds, legacy) ==
    IF Len(creds) > 0 THEN creds
    ELSE IF legacy # NoDict
    THEN <<<<Or(_region_from_api_base(legacy.api_base), "default"), legacy>>>>
    ELSE <<>>

_load_all_credentials(st) ==
    LoadAllFallback(LoadAllLoop(st, 1, <<>>), _load_legacy_credentials(st))

\* the five keys of a record; suffix is "" or ":<region>"
RecordKeys(suffix) ==
    <<KEYRING_TOKEN_KEY \o suffix, KEYRING_PHONE_KEY \o suffix,
      KEYRING_IAC_KEY \o suffix, KEYRING_API_BASE_KEY \o suffix,
      KEYRING_VERIFY_KEY \o suffix>>

\* clear_credentials: keys.extend(...) for region in API_SERVERS
RECURSIVE ClearKeys(_, _)
ClearKeys(i, keys) ==
    IF i > Len(API_SERVERS) THEN keys
    ELSE ClearKeys(i + 1, keys \o RecordKeys(_region_key("", API_SERVERS[i][1])))

\* for key in keys: delete_password, a missing key is passed over
RECURSIVE DeleteKeys(_, _)
DeleteKeys(st, keys) ==
    IF Len(keys) = 0 THEN st
    ELSE DeleteKeys(delete_password(st, keys[1]), Tail(keys))

\* a variant that leaves the region-scoped keys in the keyring
clear_credentials_LegacyOnly(st) == DeleteKeys(st, RecordKeys(""))

clear_credentials(st) == DeleteKeys(st, ClearKeys(1, RecordKeys("")))

\* clear(region) of the credential store: deletes only that region's keys
clear_credentials_for_region(st, region) ==
    DeleteKeys(st, RecordKeys(_region_key("", region)))

\* CatLinkAPI(api_base=creds["api_base"], token=creds["token"], verify=creds["verify"])
ClientOf(creds) ==
    [api_base |-> rstrip(creds.api_base, "/") \o "/", token |-> Or(creds.token, ""),
     verify |-> creds.verify]

NotLoggedIn == CatLinkAPIError("Not logged in. Run 'catlink login' first.", 0)

\* get_authenticated_client after creds = _load_credentials(region=region)
ClientOrRaise(creds) ==
    IF creds = NoDict THEN Raise(NotLoggedIn) ELSE Return(ClientOf(creds))

get_authenticated_client(st, region) == ClientOrRaise(_load_credentials(st, region))

\* get_authenticated_clients with no region, after creds_list = _load_all_credentials()
ClientsOrRaise(creds_list) ==
    IF Len(creds_list) = 0 THEN Raise(NotLoggedIn)
    ELSE Return([i \in 1..Len(creds_list) |->
                    <<creds_list[i][1], ClientOf(creds_list[i][2])>>])

\* get_authenticated_clients with a region, after get_authenticated_client
OneClient(region, r) ==
    IF r.kind = "raise" THEN r ELSE Return(<<<<region, r.value>>>>)

get_authenticated_clients(st, region) ==
    IF Truthy(region) THEN OneClient(region, get_authenticated_client(st, region))
    ELSE ClientsOrRaise(_load_all_credentials(st))

(***************************************************************************)
(* class CatLinkAPI.  A client is the record c = [api_base, token]; every  *)
(* method returns the client after the call (c), the requests it handed to *)
(* the transport in order, each with the reply it got (sent), and its      *)
(* outcome (out).  The server's answer to a request is a reply:            *)
(* [kind |-> "json", body], or [kind |-> "transport"] when the transport   *)
(* raises, or [kind |-> "nonjson"] when the body cannot be parsed.         *)
(***************************************************************************)
\* CatLinkAPI.__init__(api_base, token): the fields request and _api_url use
__init__(base, tok) ==
    [api_base |-> rstrip(base, "/") \o "/", token |-> Or(tok, "")]

LANGUAGE == "en_GB"

TOKEN_EXPIRED == 1002

PASSWORD_PLAIN_MAX == 16

\* a variant that joins the path as given
_api_url_AsGiven(c, api) ==
    IF startswith(api, "http") THEN api ELSE c.api_base \o api

_api_url(c, api) ==
    IF startswith(api, "http") THEN api ELSE c.api_base \o lstrip(api, "/")

\* hashlib.md5(s).hexdigest().upper(): the digest is kept symbolic
MD5Upper(s) == "MD5[" \o s \o "]"

\* Ordinal order of the parameter names the client signs (sorted(pms.items()))
ParamOrder ==
    << "cmd", "consumablesType", "date", "deviceId", "deviceType", "enable",
       "footOutNum", "internationalCode", "mobile", "noncestr", "password",
       "petId", "platform", "sport", "timezoneId", "token", "type", "workModel" >>

\* the entries of pms under the keys in the given order
ItemsInOrder(pms, keys) == [i \in 1..Len(keys) |-> <<keys[i], DictGet(pms, keys[i])>>]

\* a variant that keeps the insertion order
sorted_InsertionOrder(pms) == pms

sorted(pms) == ItemsInOrder(pms, SelectSeq(ParamOrder, LAMBDA k : k \in DictKeys(pms)))

\* [f"{k}={v}" for k, v in lst]
KeyValueParts(lst) == [i \in 1..Len(lst) |-> lst[i][1] \o "=" \o lst[i][2]]

_params_sign(pms) ==
    MD5Upper(join("&", Append(KeyValueParts(sorted(pms)), "key=" \o SIGN_KEY)))

\* RSA/PKCS1v15 of SHA1(MD5(pwd)), base64: kept symbolic; the random padding
\* is the input pad
encrypt_password(pwd, pad) == "b64:rsa:" \o pad \o ":SHA1:md5:" \o pwd

\* if self.token: pms["token"] = self.token
WithToken(c, pms) == IF c.token # "" THEN DictSet(pms, "token", c.token) ELSE pms

\* pms["sign"] = self._params_sign(pms)
Signed(pms) == DictSet(pms, "sign", _params_sign(pms))

\* resp = self._client.get/post(...); result = resp.json()
Answer(reply) ==
    IF reply.kind = "transport" THEN Raise(HTTPError)
    ELSE IF reply.kind = "nonjson" THEN Raise(JSONDecodeError)
    ELSE Return(reply.body)

\* request(): now is the reading of time.time() in milliseconds.  The result is
\* the request handed to the transport with the reply it got (wire) and the outcome.
request(c, api, params, method, now, reply) ==
    [wire |-> [verb |-> IF method = "GET" THEN "GET" ELSE "POST",
               carrier |-> IF method \in {"GET", "POST_GET"} THEN "params" ELSE "data",
               api |-> api,
               url |-> _api_url(c, api),
               headers |-> [language |-> LANGUAGE, user_agent |-> "okhttp/3.10.0",
                            token |-> c.token],
               pms |-> Signed(WithToken(c, DictSet(params, "noncestr", ToString(now)))),
               args |-> params, method |-> method, reply |-> reply],
     out |-> Answer(reply)]

\* a variant that prefers "message" to "msg"
MessageOf_MessageFirst(rsp, default) ==
    Or(Or(Get(rsp, "message"), Get(rsp, "msg")), default)

\* msg = rsp.get("msg") or rsp.get("message") or default
MessageOf(rsp, default) == Or(Or(Get(rsp, "msg"), Get(rsp, "message")), default)

\* the body of _check_response once code = rsp.get("returnCode", 0) is read
CheckCode(rsp, code) ==
    IF code = TOKEN_EXPIRED
    THEN Raise(CatLinkAPIError("Token expired", TOKEN_EXPIRED))
    ELSE IF code # 0
    THEN Raise(CatLinkAPIError(MessageOf(rsp, "Error code " \o ToString(code)), code))
    ELSE Return(rsp)

_check_response(rsp) == CheckCode(rsp, GetDefault(rsp, "returnCode", 0))

\* a variant that sends a password of 16 characters as it is
Encrypted_FromSixteen(password, pad) ==
    IF Len(password) >= PASSWORD_PLAIN_MAX THEN password
    ELSE encrypt_password(password, pad)

\* encrypted = password if len(password) > 16 else self.encrypt_password(password)
Encrypted(password, pad) ==
    IF Len(password) > PASSWORD_PLAIN_MAX THEN password
    ELSE encrypt_password(password, pad)

LoginParams(phone_iac, phone, encrypted) ==
    << <<"platform", "ANDROID">>, <<"internationalCode", phone_iac>>,
       <<"mobile", phone>>, <<"password", encrypted>> >>

\* a variant that reads the token at the top level of the response
LoginToken_TopLevel(r) == Get(r.out.value, "token")

\* login() after rsp = self.request(...): c1 is the client with its token
\* cleared, r the request's result, tok = rsp.get("data", {}).get("token")
LoginToken(r) == Get(GetDefault(r.out.value, "data", NoDict), "token")

LoginResult(c1, r) ==
    IF r.out.kind = "raise"
    THEN [c |-> c1, sent |-> <<r.wire>>, out |-> r.out]
    ELSE IF ~Truthy(LoginToken(r))
    THEN [c |-> c1, sent |-> <<r.wire>>,
          out |-> Raise(CatLinkAPIError(
                      "Login failed: " \o MessageOf(r.out.value, "Login failed"), 0))]
    ELSE [c |-> [c1 EXCEPT !.token = LoginToken(r)], sent |-> <<r.wire>>,
          out |-> Return(LoginToken(r))]

\* a variant that keeps the token while logging in
ClearToken_Keep(c) == c

\* self.token = "" before the request is built
ClearToken(c) == [c EXCEPT !.token = ""]

login(c, phone_iac, phone, password, pad, now, reply) ==
    LoginResult(ClearToken(c),
                request(ClearToken(c), "login/password",
                        LoginParams(phone_iac, phone, Encrypted(password, pad)),
                        "POST", now, reply))

\* a variant that re-authenticates on any error code
NeedsReauth_AnyError(rsp) == GetDefault(rsp, "returnCode", 0) # 0

\* code = rsp.get("returnCode", 0); if code == 1002
NeedsReauth(rsp) == GetDefault(rsp, "returnCode", 0) = TOKEN_EXPIRED

\* _request_with_reauth after the retry b (a: first request, l: login)
ReauthAfterRetry(a, l, b) ==
    [c |-> l.c, sent |-> <<a.wire>> \o l.sent \o <<b.wire>>, out |-> b.out]

\* a variant that builds the retry with the token of the first request
ReauthAfterLogin_StaleToken(api, params, method, now, replies, a, l) ==
    IF l.out.kind = "raise"
    THEN [c |-> l.c, sent |-> <<a.wire>> \o l.sent, out |-> l.out]
    ELSE ReauthAfterRetry(a, l, request([l.c EXCEPT !.token = a.wire.headers.token],
                                        api, params, method, now + 2, replies[3]))

\* _request_with_reauth after self.login(...) (l)
ReauthAfterLogin(api, params, method, now, replies, a, l) ==
    IF l.out.kind = "raise"
    THEN [c |-> l.c, sent |-> <<a.wire>> \o l.sent, out |-> l.out]
    ELSE ReauthAfterRetry(a, l, request(l.c, api, params, method, now + 2, replies[3]))

\* _request_with_reauth after creds = _load_credentials(region=region)
ReauthWithCreds(c, api, params, method, pad, now, replies, a, creds) ==
    IF creds # NoDict
    THEN ReauthAfterLogin(api, params, method, now, replies, a,
                          login(c, creds.phone_iac, creds.phone, creds.token, pad,
                                now + 1, replies[2]))
    ELSE [c |-> c, sent |-> <<a.wire>>, out |-> a.out]

\* _request_with_reauth after the first rsp = self.request(...) (a)
ReauthAfterFirst(c, st, api, params, method, pad, now, replies, a) ==
    IF a.out.kind = "raise"
    THEN [c |-> c, sent |-> <<a.wire>>, out |-> a.out]
    ELSE IF NeedsReauth(a.out.value)
    THEN ReauthWithCreds(c, api, params, method, pad, now, replies, a,
                         _load_credentials(st, _region_from_api_base(c.api_base)))
    ELSE [c |-> c, sent |-> <<a.wire>>, out |-> a.out]

\* replies = <<reply to the first call, reply to the login, reply to the retry>>;
\* the k-th request of an operation is stamped now + k - 1
_request_with_reauth(c, st, api, params, method, pad, now, replies) ==
    ReauthAfterFirst(c, st, api, params, method, pad, now, replies,
                     request(c, api, params, method, now, replies[1]))

\* a variant that reports a generic reason
StrExc_Generic(e) == "failed"

\* str(exc)
StrExc(e) == e.message

\* except (CatLinkAPIError, httpx.HTTPError)
Caught(out) ==
    out.kind = "raise" /\ out.exc.type \in {"CatLinkAPIError", "httpx.HTTPError"}

\* a variant that leaves the base URL of the client as it is
AtRegion_Unset(c, i) == c

\* self.api_base = base_url
AtRegion(c, i) == [c EXCEPT !.api_base = API_SERVERS[i][2]]

\* The loop of login_auto_region over API_SERVERS.items(), at its i-th entry.
\* a = [phone_iac, phone, password, pad, now, replies]: the arguments, the
\* padding, the clock and one reply per region; l is the login at region i.
RECURSIVE AutoLoop(_, _, _, _, _)
AutoStep(i, errors, sent, a, l) ==
    IF l.out.kind = "return"
    THEN [c |-> l.c, sent |-> sent \o l.sent,
          out |-> Return(<<l.out.value, API_SERVERS[i][2]>>)]
    ELSE IF Caught(l.out)
    THEN AutoLoop(l.c, i + 1,
                  Append(errors, API_SERVERS[i][1] \o ": " \o StrExc(l.out.exc)),
                  sent \o l.sent, a)
    ELSE [c |-> l.c, sent |-> sent \o l.sent, out |-> l.out]

AutoLoop(c, i, errors, sent, a) ==
    IF i > Len(API_SERVERS)
    THEN [c |-> c, sent |-> sent,
          out |-> Raise(CatLinkAPIError(
                      "Login failed on all regions: " \o join("; ", errors), 0))]
    ELSE AutoStep(i, errors, sent, a,
                  login(AtRegion(c, i), a.phone_iac, a.phone, a.password, a.pad,
                        a.now + i - 1, a.replies[i]))

login_auto_region(c, a) == AutoLoop(c, 1, <<>>, <<>>, a)

\* The loop of login_all_regions, at the i-th entry of API_SERVERS.items();
\* lists = <<successes, errors>>
RECURSIVE AllLoop(_, _, _, _, _)
AllStep(i, lists, sent, a, l) ==
    IF l.out.kind = "raise"
    THEN IF Caught(l.out)
         THEN AllLoop(l.c, i + 1,
                      <<lists[1],
                        Append(lists[2], <<API_SERVERS[i][1], StrExc(l.out.exc)>>)>>,
                      sent \o l.sent, a)
         ELSE [c |-> l.c, sent |-> sent \o l.sent, out |-> l.out]
    ELSE AllLoop(l.c, i + 1,
                 <<Append(lists[1],
                          <<API_SERVERS[i][1], API_SERVERS[i][2], l.out.value>>),
                   lists[2]>>,
                 sent \o l.sent, a)

AllLoop(c, i, lists, sent, a) ==
    IF i > Len(API_SERVERS)
    THEN [c |-> c, sent |-> sent, out |-> Return(lists)]
    ELSE AllStep(i, lists, sent, a,
                 login(AtRegion(c, i), a.phone_iac, a.phone, a.password, a.pad,
                       a.now + i - 1, a.replies[i]))

login_all_regions(c, a) == AllLoop(c, 1, <<<<>>, <<>>>>, <<>>, a)

\* self._check_response(rsp) after a call r: a raise of either replaces the outcome
Checked(r) ==
    IF r.out.kind = "raise" THEN r
    ELSE [r EXCEPT !.out = _check_response(r.out.value)]

\* A JSON scalar of a device record: a string, a number, or JNull for a key
\* that is absent (dict.get gives None)
JString(x) == [t |-> "str", s |-> x, n |-> 0]

JInt(x) == [t |-> "int", s |-> "", n |-> x]

JNull == [t |-> "null", s |-> "", n |-> 0]

JTruthy(x) ==
    IF x.t = "str" THEN x.s # "" ELSE IF x.t = "int" THEN x.n # 0 ELSE FALSE

\* str(x)
JStr(x) == IF x.t = "int" THEN ToString(x.n) ELSE x.s

JOr(a, b) == IF JTruthy(a) THEN a ELSE b

\* a variant that looks at the id only
DeviceKey_IdOnly(dev) == GetDefault(dev, "id", JNull)

\* dev.get("id") or dev.get("deviceId") or dev.get("mac")
DeviceKey(dev) ==
    JOr(JOr(GetDefault(dev, "id", JNull), GetDefault(dev, "deviceId", JNull)),
        GetDefault(dev, "mac", JNull))

\* one pass of the loop of _merge_devices over dev with dev_id = DeviceKey(dev):
\* the new <<merged, seen>>
MergeStep(merged, seen, dev, dev_id) ==
    IF JTruthy(dev_id)
    THEN IF JStr(dev_id) \in seen
         THEN <<merged, seen>>
         ELSE <<Append(merged, dev), seen \cup {JStr(dev_id)}>>
    ELSE <<Append(merged, dev), seen>>

RECURSIVE MergeLoop(_, _)
MergeLoop(todo, acc) ==
    IF Len(todo) = 0 THEN acc[1]
    ELSE MergeLoop(Tail(todo), MergeStep(acc[1], acc[2], Head(todo), DeviceKey(Head(todo))))

\* a variant that walks the extra list first
_merge_devices_ExtraFirst(primary, extra) == MergeLoop(extra \o primary, <<<<>>, {}>>)

_merge_devices(primary, extra) == MergeLoop(primary \o extra, <<<<>>, {}>>)

\* rsp.get("data", {}).get("devices") or []
DevicesOf(rsp) == GetDefault(GetDefault(rsp, "data", NoDict), "devices", <<>>)

DEVICES_API == "token/device/union/list/sorted"

\* if extra: expanded = _merge_devices(expanded, extra)
Expanded(expanded, extra) ==
    IF Len(extra) > 0 THEN _merge_devices(expanded, extra) ELSE expanded

\* The loop of _try_expand_devices over ("FEEDER", "ALL"): types are the filters
\* left, replies one triple per filter, r the checked query of the first of them
RECURSIVE ExpandLoop(_, _, _, _, _, _, _, _)
ExpandStep(st, types, expanded, sent, pad, now, replies, r) ==
    IF r.out.kind = "raise"
    THEN IF r.out.exc.type \in {"CatLinkAPIError", "httpx.HTTPError"}
         THEN ExpandLoop(r.c, st, Tail(types), expanded, sent \o r.sent, pad, now + 3,
                         Tail(replies))
         ELSE [c |-> r.c, sent |-> sent \o r.sent, out |-> r.out]
    ELSE ExpandLoop(r.c, st, Tail(types), Expanded(expanded, DevicesOf(r.out.value)),
                    sent \o r.sent, pad, now + 3, Tail(replies))

ExpandLoop(c, st, types, expanded, sent, pad, now, replies) ==
    IF Len(types) = 0 THEN [c |-> c, sent |-> sent, out |-> Return(expanded)]
    ELSE ExpandStep(st, types, expanded, sent, pad, now, replies,
                    Checked(_request_with_reauth(c, st, DEVICES_API,
                                << <<"type", Head(types)>> >>, "GET", pad, now,
                                Head(replies))))

\* sent are the requests made before the expansion
_try_expand_devices(c, st, devices, sent, pad, now, replies) ==
    ExpandLoop(c, st, <<"FEEDER", "ALL">>, devices, sent, pad, now, replies)

\* a variant that is satisfied by any device
HasFeeder_AnyDevice(devices) == Len(devices) > 0

\* any(dev.get("deviceType") == "FEEDER" for dev in devices)
HasFeeder(devices) ==
    \E i \in 1..Len(devices) : GetDefault(devices[i], "deviceType", "") = "FEEDER"

\* get_devices after the checked primary query r
DevicesResult(st, pad, now, replies, r) ==
    IF r.out.kind = "raise" THEN r
    ELSE IF ~HasFeeder(DevicesOf(r.out.value))
    THEN _try_expand_devices(r.c, st, DevicesOf(r.out.value), r.sent, pad, now + 3,
                             Tail(replies))
    ELSE [r EXCEPT !.out = Return(DevicesOf(r.out.value))]

\* replies = <<triple of the primary query, triple of FEEDER, triple of ALL>>
get_devices(c, st, pad, now, replies) ==
    DevicesResult(st, pad, now, replies,
                  Checked(_request_with_reauth(c, st, DEVICES_API,
                              << <<"type", "NONE">> >>, "GET", pad, now, replies[1])))

DetailApi(device_type) ==
    IF device_type = "SCOOPER" THEN "token/device/info"
    ELSE IF device_type = "LITTER_BOX_599" THEN "token/litterbox/info"
    ELSE IF device_type = "C08" THEN "token/litterbox/info/c08"
    ELSE IF device_type = "FEEDER" THEN "token/device/feeder/detail"
    ELSE "token/device/info"

\* a or b over dicts
DictOr(a, b) == IF a # NoDict THEN a ELSE b

\* r with its returned response replaced by the value extract(rsp)
Returning(r, extract(_)) ==
    IF r.out.kind = "raise" THEN r ELSE [r EXCEPT !.out = Return(extract(r.out.value))]

\* rsp.get("data", {}).get("deviceInfo") or rsp.get("data", {})
DetailOf(rsp) ==
    DictOr(GetDefault(GetDefault(rsp, "data", NoDict), "deviceInfo", NoDict),
           GetDefault(rsp, "data", NoDict))

get_device_detail(c, st, device_id, device_type, pad, now, replies) ==
    Returning(Checked(_request_with_reauth(c, st, DetailApi(device_type),
                          << <<"deviceId", device_id>> >>, "GET", pad, now, replies)),
              DetailOf)

\* rsp = self.request(api, pms, "POST"); self._check_response(rsp); return rsp
Post(c, r) == Checked([c |-> c, sent |-> <<r.wire>>, out |-> r.out])

PostChecked(c, api, pms, now, reply) == Post(c, request(c, api, pms, "POST", now, reply))

change_mode(c, device_id, mode_code, device_type, now, reply) ==
    PostChecked(c,
                IF device_type = "LITTER_BOX_599" THEN "token/litterbox/changeMode"
                ELSE "token/device/changeMode",
                << <<"workModel", mode_code>>, <<"deviceId", device_id>> >>, now, reply)

send_action(c, device_id, action_code, device_type, now, reply) ==
    PostChecked(c,
                IF device_type = "LITTER_BOX_599" THEN "token/litterbox/actionCmd"
                ELSE "token/device/actionCmd",
                << <<"cmd", action_code>>, <<"deviceId", device_id>> >>, now, reply)

LogsApi(device_type) ==
    IF device_type = "SCOOPER" THEN "token/device/scooper/stats/log/top5"
    ELSE IF device_type = "LITTER_BOX_599" THEN "token/litterbox/stats/log/top5"
    ELSE IF device_type = "FEEDER" THEN "token/device/feeder/stats/log/top5"
    ELSE "token/device/union/logs"

\* a or b over lists
ListOr(a, b) == IF Len(a) > 0 THEN a ELSE b

\* data.get("scooperLogTop5") or data.get("feederLogTop5") or data.get("logs")
\* or data.get("list") or []
LogsIn(data) ==
    ListOr(GetDefault(data, "scooperLogTop5", <<>>),
    ListOr(GetDefault(data, "feederLogTop5", <<>>),
    ListOr(GetDefault(data, "logs", <<>>),
    ListOr(GetDefault(data, "list", <<>>), <<>>))))

LogsOf(rsp) == LogsIn(GetDefault(rsp, "data", NoDict))

get_device_logs(c, st, device_id, device_type, pad, now, replies) ==
    Returning(Checked(_request_with_reauth(c, st, LogsApi(device_type),
                          << <<"deviceId", device_id>> >>, "GET", pad, now, replies)),
              LogsOf)

replace_garbage_bag(c, device_id, enable, now, reply) ==
    PostChecked(c, "token/litterbox/replaceGarbageBagCmd",
                << <<"enable", IF enable THEN "1" ELSE "0">>, <<"deviceId", device_id>> >>,
                now, reply)

reset_consumable(c, device_id, device_type, consumable_type, now, reply) ==
    PostChecked(c, "token/device/union/consumableReset",
                << <<"consumablesType", consumable_type>>, <<"deviceId", device_id>>,
                   <<"deviceType", device_type>> >>, now, reply)

food_out(c, device_id, portions, now, reply) ==
    PostChecked(c, "token/device/feeder/foodOut",
                << <<"footOutNum", ToString(portions)>>, <<"deviceId", device_id>> >>,
                now, reply)

\* rsp.get("data", {}).get("cats") or []
CatsOf(rsp) == GetDefault(GetDefault(rsp, "data", NoDict), "cats", <<>>)

\* timezone_id is a zone name or None
get_cats(c, st, timezone_id, pad, now, replies) ==
    Returning(Checked(_request_with_reauth(c, st, "token/pet/health/v3/cats",
                          IF Truthy(timezone_id) THEN << <<"timezoneId", timezone_id>> >>
                          ELSE <<>>,
                          "GET", pad, now, replies)),
              CatsOf)

\* rsp.get("data") or {}
DataOf(rsp) == GetDefault(rsp, "data", NoDict)

SummaryParams(pet_id, date) == << <<"petId", pet_id>>, <<"date", date>>, <<"sport", "1">> >>

get_cat_summary(c, st, pet_id, date, timezone_id, pad, now, replies) ==
    Returning(Checked(_request_with_reauth(c, st, "token/pet/health/v3/summarySimple",
                          IF Truthy(timezone_id)
                          THEN Append(SummaryParams(pet_id, date),
                                      <<"timezoneId", timezone_id>>)
                          ELSE SummaryParams(pet_id, date),
                          "GET", pad, now, replies)),
              DataOf)

(***************************************************************************)
(* The environment: what the server answers, what time it is, what the     *)
(* caller passes                                                           *)
(***************************************************************************)
MaxNow == 1

Times == 1..MaxNow

Pads == {"r1"}

TokOld == "tok-old"

TokA == "tokA"

TokB == "token-B-0123456789abcdef"

NewTokens == {TokA, TokB}

Phone == "13800000000"

CustomBase == "https://example.com/api/"

Json(body) == [kind |-> "json", body |-> body]

Transport == [kind |-> "transport"]

NonJson == [kind |-> "nonjson"]

Ok(data) == Json([returnCode |-> 0, data |-> data])

NoCode(data) == Json([data |-> data])

Expired == Json([returnCode |-> 1002, msg |-> "token invalid"])

Failed == Json([returnCode |-> 500, msg |-> "server busy"])

LoginOk(tok) == Json([returnCode |-> 0, data |-> [token |-> tok]])

LoginBad == Json([returnCode |-> 1, msg |-> "bad password", data |-> NoDict])

LoginReplies == {LoginOk(t) : t \in NewTokens} \cup {LoginBad, Transport, NonJson}

CallReplies(datas) ==
    {Ok(d) : d \in datas} \cup {NoCode(NoDict), Expired, Failed, Transport, NonJson}

\* <<first reply, login reply, retry reply>>.  A later reply is read only after
\* an expired first reply (and a successful login), so it varies only there.
ReplyTriples(datas) ==
    {<<r, Transport, Transport>> : r \in CallReplies(datas)}
        \cup {<<Expired, l, Transport>> : l \in LoginReplies}
        \cup {<<Expired, LoginOk(t), r>> : t \in NewTokens, r \in CallReplies(datas)}

Scooper1 == [id |-> JString("1"), deviceName |-> "Scooper",
             deviceType |-> "SCOOPER"]

Feeder2 == [id |-> JInt(2), deviceName |-> "Feeder",
            deviceType |-> "FEEDER"]

\* the device of Scooper1 listed a second time, its id as a number
Scooper1Again == [id |-> JInt(1), deviceName |-> "Scooper (again)",
                  deviceType |-> "SCOOPER"]

DeviceIds == {"d1"}

DeviceTypes == {"SCOOPER", "LITTER_BOX_599"}

EmptyStore == <<>>

StoreGlobal == save_credentials(EmptyStore, TokOld, Phone, "86", API_SERVERS[1][2], TRUE)

StoreTwo == save_credentials(StoreGlobal, TokB, Phone, "1", API_SERVERS[2][2], FALSE)

StoreLegacy == save_credentials(EmptyStore, TokOld, Phone, "86", CustomBase, TRUE)

InitStores == {EmptyStore, StoreGlobal, StoreTwo, StoreLegacy}

ClientBases == {API_SERVERS[1][2], API_SERVERS[2][2], CustomBase}

(***************************************************************************)
(* The client as a state machine: one action per operation                 *)
(***************************************************************************)
NoCall == [op |-> "none"]

Client == [api_base |-> api_base, token |-> token]

\* an operation runs to completion: r is what the method returns
Run(op, args, r) ==
    /\ call = NoCall
    /\ api_base' = r.c.api_base
    /\ token' = r.c.token
    /\ call' = [op |-> op, args |-> args, before |-> Client, sent |-> r.sent,
                out |-> r.out]
    /\ UNCHANGED store

\* the caller has taken the result; the client is ready for the next operation
ReturnToCaller ==
    /\ call # NoCall
    /\ call' = NoCall
    /\ UNCHANGED <<api_base, token, store>>

RequestWithReauth ==
    \E method \in {"GET", "POST"}, pad \in Pads, now \in Times,
       rs \in ReplyTriples({NoDict}) :
        Run("_request_with_reauth", <<"token/device/info", method>>,
            _request_with_reauth(Client, store, "token/device/info",
                                 << <<"deviceId", "d1">> >>, method, pad, now, rs))

GetDeviceDetail ==
    \E id \in DeviceIds, ty \in DeviceTypes, pad \in Pads, now \in Times,
       rs \in ReplyTriples({[deviceInfo |-> [id |-> "d1"]]}) :
        Run("get_device_detail", <<id, ty>>,
            get_device_detail(Client, store, id, ty, pad, now, rs))

GetDeviceLogs ==
    \E id \in DeviceIds, ty \in DeviceTypes, pad \in Pads, now \in Times,
       rs \in ReplyTriples({[logs |-> <<"log1">>]}) :
        Run("get_device_logs", <<id, ty>>,
            get_device_logs(Client, store, id, ty, pad, now, rs))

GetCats ==
    \E tz \in {None, "Europe/London"}, pad \in Pads, now \in Times,
       rs \in ReplyTriples({[cats |-> <<[id |-> "c1"]>>]}) :
        Run("get_cats", <<tz>>, get_cats(Client, store, tz, pad, now, rs))

GetCatSummary ==
    \E tz \in {None}, pad \in Pads, now \in Times,
       rs \in ReplyTriples({[weight |-> "4.2"]}) :
        Run("get_cat_summary", <<"c1", "2024-01-01", tz>>,
            get_cat_summary(Client, store, "c1", "2024-01-01", tz, pad, now, rs))

ChangeMode ==
    \E id \in DeviceIds, ty \in DeviceTypes, now \in Times,
       r \in CallReplies({NoDict}) :
        Run("change_mode", <<id, "00", ty>>, change_mode(Client, id, "00", ty, now, r))

SendAction ==
    \E id \in DeviceIds, ty \in DeviceTypes, now \in Times,
       r \in CallReplies({NoDict}) :
        Run("send_action", <<id, "01", ty>>, send_action(Client, id, "01", ty, now, r))

ReplaceGarbageBag ==
    \E id \in DeviceIds, enable \in BOOLEAN, now \in Times, r \in CallReplies({NoDict}) :
        Run("replace_garbage_bag", <<id, enable>>,
            replace_garbage_bag(Client, id, enable, now, r))

ResetConsumable ==
    \E id \in DeviceIds, kind \in {"CAT_LITTER", "DEODORIZER_02"}, now \in Times,
       r \in CallReplies({NoDict}) :
        Run("reset_consumable", <<id, "SCOOPER", kind>>,
            reset_consumable(Client, id, "SCOOPER", kind, now, r))

FoodOut ==
    \E id \in DeviceIds, portions \in {5}, now \in Times, r \in CallReplies({NoDict}) :
        Run("food_out", <<id, portions>>, food_out(Client, id, portions, now, r))

\* the fallback queries of the device listing are answered from a smaller set
FallbackTriples ==
    {<<Ok([devices |-> <<Scooper1, Feeder2>>]), Transport, Transport>>,
     <<Ok(NoDict), Transport, Transport>>,
     <<Failed, Transport, Transport>>,
     <<Transport, Transport, Transport>>,
     <<NonJson, Transport, Transport>>,
     <<Expired, LoginOk(TokA), Ok([devices |-> <<Feeder2>>])>>}

GetDevices ==
    \E pad \in Pads, now \in Times,
       rs \in ReplyTriples({[devices |-> <<Scooper1>>], [devices |-> <<Feeder2>>],
                             [devices |-> <<Scooper1, Scooper1Again>>]}),
       f1 \in FallbackTriples, f2 \in FallbackTriples :
        Run("get_devices", <<>>, get_devices(Client, store, pad, now, <<rs, f1, f2>>))

Init ==
    /\ api_base \in ClientBases
    /\ token = TokOld
    /\ store \in InitStores
    /\ call = NoCall

Next ==
    \/ RequestWithReauth
    \/ GetDevices
    \/ GetDeviceDetail
    \/ GetDeviceLogs
    \/ ChangeMode
    \/ SendAction
    \/ ReplaceGarbageBag
    \/ ResetConsumable
    \/ FoodOut
    \/ GetCats
    \/ GetCatSummary
    \/ ReturnToCaller

Spec == Init /\ [][Next]_vars

(***************************************************************************)
(* Observations on the operation that has just run                         *)
(***************************************************************************)
IsLogin(x) == x.api = "login/password"

Logins(sent) == Cardinality({i \in 1..Len(sent) : IsLogin(sent[i])})

Originals(sent) == Cardinality({i \in 1..Len(sent) : ~IsLogin(sent[i])})

\* the reply is a JSON object whose returnCode is n
GotCode(reply, n) ==
    /\ reply.kind = "json"
    /\ "returnCode" \in DOMAIN reply.body
    /\ reply.body.returnCode = n

\* the reply is a JSON object whose returnCode is present and not 0
GotError(reply) ==
    /\ reply.kind = "json"
    /\ "returnCode" \in DOMAIN reply.body
    /\ reply.body.returnCode # 0

\* the reply is a JSON object with returnCode 0 or none
GotSuccess(reply) ==
    /\ reply.kind = "json"
    /\ ("returnCode" \in DOMAIN reply.body => reply.body.returnCode = 0)

\* the reply to a login carries a non-empty token
LoginSucceeded(reply) ==
    /\ reply.kind = "json"
    /\ "data" \in DOMAIN reply.body
    /\ "token" \in DOMAIN reply.body.data
    /\ reply.body.data.token # ""

SameCall(x, y) ==
    /\ x.api = y.api
    /\ x.url = y.url
    /\ x.args = y.args
    /\ x.method = y.method
    /\ x.verb = y.verb
    /\ x.carrier = y.carrier

FirstExpired == Len(call.sent) >= 1 /\ GotCode(call.sent[1].reply, 1002)

Stored(key) == key \in DOMAIN store /\ store[key] # ""

\* Credentials are cached for the region of the client that started the
\* operation: the token of that region is stored; for a base URL outside the
\* region table, the record that an unscoped load resolves to is stored.
CredsCached ==
    LET base == call.before.api_base
        known == {i \in 1..Len(API_SERVERS) : API_SERVERS[i][2] = base}
    IN  IF known # {}
        THEN \E i \in known : Stored("token:" \o API_SERVERS[i][1])
        ELSE \/ Stored("token")
             \/ \E i \in 1..Len(API_SERVERS) :
                    /\ Stored("api_base")
                    /\ store["api_base"] = API_SERVERS[i][2]
                    /\ Stored("token:" \o API_SERVERS[i][1])

\* operations that make exactly one call through _request_with_reauth
SingleReauthOps ==
    {"_request_with_reauth", "get_device_detail", "get_device_logs", "get_cats",
     "get_cat_summary"}

TypedOps ==
    {"get_devices", "get_device_detail", "get_device_logs", "change_mode",
     "send_action", "reset_consumable", "replace_garbage_bag", "food_out",
     "get_cats", "get_cat_summary"}

(***************************************************************************)
(* C1 (as stated).  One invocation of _request_with_reauth: when the first *)
(* response is 1002 and credentials are cached for the current region the  *)
(* client logs in exactly once and then dispatches the original call       *)
(* exactly once more (same path, params and method); always at most two    *)
(* dispatches of the original call and at most one login; and exactly one  *)
(* dispatch and no login when the first response is not 1002.              *)
(***************************************************************************)
C1_SingleShotAsStated ==
    call.op \in SingleReauthOps =>
        LET sent == call.sent
        IN  /\ Originals(sent) <= 2
            /\ Logins(sent) <= 1
            /\ ~FirstExpired => (Originals(sent) = 1 /\ Logins(sent) = 0)
            /\ (FirstExpired /\ CredsCached) =>
                   /\ Len(sent) = 3
                   /\ ~IsLogin(sent[1]) /\ IsLogin(sent[2]) /\ ~IsLogin(sent[3])
                   /\ SameCall(sent[1], sent[3])

(***************************************************************************)
(* C1 (amended).  As C1, except that the second dispatch of the original   *)
(* call happens only if the re-login succeeded: when the first response is *)
(* 1002 and credentials are cached, exactly one login is attempted; if it  *)
(* returns a token the original call is dispatched exactly once more (same *)
(* path, params and method), and if it fails the login's error is raised   *)
(* and the original call is not dispatched again.                          *)
(***************************************************************************)
C1_SingleShot ==
    call.op \in SingleReauthOps =>
        LET sent == call.sent
        IN  /\ Originals(sent) <= 2
            /\ Logins(sent) <= 1
            /\ ~FirstExpired => (Originals(sent) = 1 /\ Logins(sent) = 0)
            /\ (FirstExpired /\ CredsCached) =>
                   /\ Len(sent) >= 2
                   /\ ~IsLogin(sent[1]) /\ IsLogin(sent[2])
                   /\ IF LoginSucceeded(sent[2].reply)
                      THEN /\ Len(sent) = 3
                           /\ ~IsLogin(sent[3])
                           /\ SameCall(sent[1], sent[3])
                      ELSE /\ Len(sent) = 2
                           /\ call.out.kind = "raise"
                           /\ call.out.exc.type # "CatLinkAPIError"
                                  \/ call.out.exc.code # 1002

C1_Witness ==
    /\ call.op = "_request_with_reauth"
    /\ FirstExpired
    /\ CredsCached
    /\ Len(call.sent) = 3
    /\ IsLogin(call.sent[2])
    /\ SameCall(call.sent[1], call.sent[3])

(***************************************************************************)
(* C2 (as stated).  Every typed operation recovers from an expired token:  *)
(* a first response 1002 with cached credentials leads to a re-login and,  *)
(* when the login succeeds, to one retry of the same call; when the retry  *)
(* succeeds the caller gets a result and no error.                         *)
(***************************************************************************)
C2_EveryTypedOpRecovers ==
    (call.op \in TypedOps /\ FirstExpired /\ CredsCached) =>
        LET sent == call.sent
        IN  /\ Len(sent) >= 2
            /\ IsLogin(sent[2])
            /\ LoginSucceeded(sent[2].reply) =>
                   /\ Len(sent) >= 3
                   /\ SameCall(sent[1], sent[3])
                   /\ GotSuccess(sent[3].reply) => call.out.kind = "return"

(***************************************************************************)
(* C3.  Token expiry that cannot be recovered propagates as a protocol     *)
(* error.  For every typed operation: a first response 1002 without cached *)
(* credentials causes no login and no retry and raises CatLinkAPIError     *)
(* with code 1002; and when the retry that follows a re-login answers a    *)
(* non-zero returnCode, the operation raises CatLinkAPIError with that     *)
(* code (1002 raises "Token expired") and dispatches nothing further.      *)
(***************************************************************************)
Retried ==
    /\ Len(call.sent) >= 3
    /\ ~IsLogin(call.sent[1]) /\ IsLogin(call.sent[2]) /\ ~IsLogin(call.sent[3])

C3_FailurePropagates ==
    call.op \in TypedOps =>
        LET sent == call.sent
        IN  /\ (FirstExpired /\ ~CredsCached) =>
                   /\ Len(sent) = 1
                   /\ call.out = Raise([type |-> "CatLinkAPIError",
                                        message |-> "Token expired", code |-> 1002])
            /\ (Retried /\ GotError(sent[3].reply)) =>
                   /\ Len(sent) = 3
                   /\ call.out.kind = "raise"
                   /\ call.out.exc.type = "CatLinkAPIError"
                   /\ call.out.exc.code = sent[3].reply.body.returnCode
                   /\ sent[3].reply.body.returnCode = 1002
                          => call.out.exc.message = "Token expired"

C3_Witness ==
    /\ call.op = "get_device_detail"
    /\ Retried
    /\ GotCode(call.sent[3].reply, 500)
    /\ call.out.kind = "raise"
    /\ call.out.exc.code = 500

(***************************************************************************)
(* Logging in: login, login_auto_region and login_all_regions on a client  *)
(* as the command line builds it (default base URL), with or without a     *)
(* token from an earlier session                                           *)
(***************************************************************************)
\* a plain password, one of exactly 16 characters and one of 17
Passwords == {"secret", "0123456789abcdef", "0123456789abcdefg"}

LoginLocked == Json([returnCode |-> 2, message |-> "account locked"])

\* replies to a single login: with and without data, token, msg and message
LoginRepliesFull ==
    LoginReplies
        \cup {LoginLocked,
              Json(NoDict),
              Json([data |-> [token |-> ""], msg |-> "no account"]),
              Json([data |-> NoDict, msg |-> "", message |-> "maintenance"]),
              Json([returnCode |-> 500, data |-> [token |-> TokA]])}

\* what each region answers to the login of a multi-region login
RegionReplies == {LoginOk(TokA), LoginOk(TokB), LoginBad, LoginLocked, Transport, NonJson}

RegionReplyTuples == RegionReplies \X RegionReplies \X RegionReplies \X RegionReplies

LoginArgs(password, pad, now, replies) ==
    [phone_iac |-> "86", phone |-> Phone, password |-> password, pad |-> pad,
     now |-> now, replies |-> replies]

Login ==
    \E password \in Passwords, pad \in Pads, now \in Times, reply \in LoginRepliesFull :
        Run("login", <<"86", Phone, password>>,
            login(Client, "86", Phone, password, pad, now, reply))

LoginAutoRegion ==
    \E pad \in Pads, now \in Times, replies \in RegionReplyTuples :
        Run("login_auto_region", <<"86", Phone, "secret">>,
            login_auto_region(Client, LoginArgs("secret", pad, now, replies)))

LoginAllRegions ==
    \E pad \in Pads, now \in Times, replies \in RegionReplyTuples :
        Run("login_all_regions", <<"86", Phone, "secret">>,
            login_all_regions(Client, LoginArgs("secret", pad, now, replies)))

InitLogin ==
    /\ api_base = DEFAULT_API_BASE
    /\ token \in {"", TokOld}
    /\ store = EmptyStore
    /\ call = NoCall

NextLogin ==
    \/ Login
    \/ LoginAutoRegion
    \/ LoginAllRegions
    \/ ReturnToCaller

SpecLogin == InitLogin /\ [][NextLogin]_vars

(***************************************************************************)
(* _check_response as a function of the response: every response of        *)
(* CheckBodies is checked once                                             *)
(***************************************************************************)
\* a key that is absent, or present with one of the values
Optional(key, values) == {NoDict} \cup {key :> v : v \in values}

CheckCodes == {0, 1002, 500, 3, -1}

CheckBodies ==
    {a @@ b @@ c @@ d :
        a \in Optional("returnCode", CheckCodes),
        b \in Optional("msg", {"", "server busy"}),
        c \in Optional("message", {"", "try later"}),
        d \in Optional("data", {NoDict})}

CheckResponse ==
    /\ call.op = "response"
    /\ call' = [op |-> "_check_response", rsp |-> call.rsp,
                out |-> _check_response(call.rsp)]
    /\ UNCHANGED <<api_base, token, store>>

InitCheck ==
    /\ api_base = DEFAULT_API_BASE
    /\ token = ""
    /\ store = EmptyStore
    /\ call \in {[op |-> "response", rsp |-> b] : b \in CheckBodies}

NextCheck == CheckResponse

SpecCheck == InitCheck /\ [][NextCheck]_vars

(***************************************************************************)
(* C4.  _check_response splits three ways on returnCode: 1002 raises       *)
(* CatLinkAPIError "Token expired" with code 1002; 0 or an absent          *)
(* returnCode returns the response unchanged; any other returnCode raises  *)
(* CatLinkAPIError with that code and with the message msg, else message,  *)
(* else "Error code <n>".                                                  *)
(***************************************************************************)
C4_CheckResponseThreeWay ==
    call.op = "_check_response" =>
        LET rsp == call.rsp
        IN  IF "returnCode" \in DOMAIN rsp /\ rsp.returnCode = 1002
            THEN call.out = Raise([type |-> "CatLinkAPIError",
                                   message |-> "Token expired", code |-> 1002])
            ELSE IF "returnCode" \notin DOMAIN rsp \/ rsp.returnCode = 0
            THEN call.out = Return(rsp)
            ELSE /\ call.out.kind = "raise"
                 /\ call.out.exc.type = "CatLinkAPIError"
                 /\ call.out.exc.code = rsp.returnCode
                 /\ call.out.exc.message =
                        IF "msg" \in DOMAIN rsp /\ rsp.msg # "" THEN rsp.msg
                        ELSE IF "message" \in DOMAIN rsp /\ rsp.message # ""
                        THEN rsp.message
                        ELSE "Error code " \o ToString(rsp.returnCode)

C4_Witness ==
    /\ call.op = "_check_response"
    /\ call.rsp = [returnCode |-> 500, msg |-> "server busy", message |-> "try later"]
    /\ call.out = Raise([type |-> "CatLinkAPIError", message |-> "server busy",
                         code |-> 500])

(***************************************************************************)
(* C5.  login: a response whose data holds a non-empty token makes login   *)
(* return that token and leaves it in the client's token field; a response *)
(* without a token makes login raise CatLinkAPIError "Login failed: "      *)
(* followed by msg, else message, else a generic text, and leaves the      *)
(* client without a token.                                                 *)
(***************************************************************************)
ServerText(body, generic) ==
    IF "msg" \in DOMAIN body /\ body.msg # "" THEN body.msg
    ELSE IF "message" \in DOMAIN body /\ body.message # "" THEN body.message
    ELSE generic

C5_LoginOutcome ==
    call.op = "login" =>
        LET reply == call.sent[1].reply
        IN  /\ LoginSucceeded(reply) =>
                   /\ call.out = Return(reply.body.data.token)
                   /\ token = reply.body.data.token
            /\ (reply.kind = "json" /\ ~LoginSucceeded(reply)) =>
                   /\ call.out.kind = "raise"
                   /\ call.out.exc.type = "CatLinkAPIError"
                   /\ call.out.exc.message =
                          "Login failed: " \o ServerText(reply.body, "Login failed")
                   /\ token = ""

C5_Witness ==
    /\ call.op = "login"
    /\ call.before.token = TokOld
    /\ call.sent[1].reply = Json([data |-> NoDict, msg |-> "", message |-> "maintenance"])
    /\ call.out.kind = "raise"
    /\ call.out.exc.message = "Login failed: maintenance"
    /\ token = ""

(***************************************************************************)
(* C6.  login clears the token before it builds its request: whatever      *)
(* token the client held, a login request carries no "token" parameter, an *)
(* empty "token" header, and a signature over exactly the parameters sent. *)
(***************************************************************************)
LoginOps == {"login", "login_auto_region", "login_all_regions"}

WithoutKey(pms, key) == SelectSeq(pms, LAMBDA e : e[1] # key)

C6_LoginSendsNoToken ==
    call.op \in LoginOps =>
        \A i \in 1..Len(call.sent) :
            LET x == call.sent[i]
            IN  IsLogin(x) =>
                    /\ "token" \notin DictKeys(x.pms)
                    /\ x.headers.token = ""
                    /\ DictGet(x.pms, "sign") = _params_sign(WithoutKey(x.pms, "sign"))

C6_Witness ==
    /\ call.op = "login"
    /\ call.before.token = TokOld
    /\ call.sent[1].headers.token = ""
    /\ "token" \notin DictKeys(call.sent[1].pms)

(***************************************************************************)
(* C7.  login_auto_region tries the regions in table order (global, china, *)
(* usa, singapore) and stops at the first success: it returns the token    *)
(* and base URL of the first region whose login succeeds, attempts no      *)
(* later region, has attempted every earlier region exactly once without   *)
(* success, and leaves the client on the successful region with its token. *)
(***************************************************************************)
LoginUrl(i) == API_SERVERS[i][2] \o "login/password"

C7_AutoRegionFirstSuccess ==
    call.op = "login_auto_region" =>
        LET sent == call.sent
            k == Len(sent)
        IN  /\ <<API_SERVERS[1][1], API_SERVERS[2][1], API_SERVERS[3][1],
                 API_SERVERS[4][1]>> = <<"global", "china", "usa", "singapore">>
            /\ k \in 1..4
            /\ \A i \in 1..k : sent[i].url = LoginUrl(i)
            /\ \A i \in 1..k : LoginSucceeded(sent[i].reply) =>
                                   (i = k /\ call.out.kind = "return")
            /\ call.out.kind = "return" =>
                   /\ LoginSucceeded(sent[k].reply)
                   /\ \A i \in 1..(k - 1) : ~LoginSucceeded(sent[i].reply)
                   /\ call.out.value = <<sent[k].reply.body.data.token, API_SERVERS[k][2]>>
                   /\ api_base = API_SERVERS[k][2]
                   /\ token = sent[k].reply.body.data.token

C7_Witness ==
    /\ call.op = "login_auto_region"
    /\ Len(call.sent) = 3
    /\ call.out = Return(<<TokB, API_SERVERS[3][2]>>)
    /\ api_base = API_SERVERS[3][2]
    /\ token = TokB

(***************************************************************************)
(* C8.  When the login fails (no token in the response, or a transport     *)
(* error) in every region, login_auto_region raises one CatLinkAPIError    *)
(* whose message lists "region: reason" for every region in table order,   *)
(* each with that region's own reason.                                     *)
(***************************************************************************)
LoginFailed(reply) ==
    reply.kind = "transport" \/ (reply.kind = "json" /\ ~LoginSucceeded(reply))

ReasonOf(reply) ==
    IF reply.kind = "transport" THEN "connection failed"
    ELSE "Login failed: " \o ServerText(reply.body, "Login failed")

RegionReason(i) == API_SERVERS[i][1] \o ": " \o ReasonOf(call.sent[i].reply)

C8_AutoRegionAggregate ==
    (/\ call.op = "login_auto_region"
     /\ Len(call.sent) = 4
     /\ \A i \in 1..4 : LoginFailed(call.sent[i].reply)) =>
        call.out = Raise([type |-> "CatLinkAPIError",
                          message |-> "Login failed on all regions: "
                                      \o RegionReason(1) \o "; " \o RegionReason(2)
                                      \o "; " \o RegionReason(3) \o "; "
                                      \o RegionReason(4),
                          code |-> 0])

C8_Witness ==
    /\ call.op = "login_auto_region"
    /\ call.out.kind = "raise"
    /\ call.out.exc.message =
           "Login failed on all regions: global: Login failed: bad password; "
           \o "china: Login failed: account locked; usa: connection failed; "
           \o "singapore: Login failed: bad password"

(***************************************************************************)
(* C9 (as stated).  login_all_regions attempts a login in every region     *)
(* exactly once, in table order, whatever the earlier outcomes (success,   *)
(* auth failure, transport failure, unparseable response), and returns     *)
(* (successes, errors) with every region in exactly one of the two lists:  *)
(* (region, base_url, token) with its own URL and token, or (region, text).*)
(***************************************************************************)
InSuccesses(lists, i) ==
    \E j \in 1..Len(lists[1]) : lists[1][j][1] = API_SERVERS[i][1]

InErrors(lists, i) ==
    \E j \in 1..Len(lists[2]) : lists[2][j][1] = API_SERVERS[i][1]

C9_AllRegionsAttemptsEvery ==
    call.op = "login_all_regions" =>
        /\ Len(call.sent) = 4
        /\ \A i \in 1..4 : call.sent[i].url = LoginUrl(i)
        /\ call.out.kind = "return"
        /\ Len(call.out.value[1]) + Len(call.out.value[2]) = 4
        /\ \A i \in 1..4 :
               IF LoginSucceeded(call.sent[i].reply)
               THEN /\ \E j \in 1..Len(call.out.value[1]) :
                           call.out.value[1][j] =
                               <<API_SERVERS[i][1], API_SERVERS[i][2],
                                 call.sent[i].reply.body.data.token>>
                    /\ ~InErrors(call.out.value, i)
               ELSE /\ InErrors(call.out.value, i)
                    /\ ~InSuccesses(call.out.value, i)

(***************************************************************************)
(* The login command and the credential store (cli.py, api.py module       *)
(* level).  Each command runs in a process of its own: it builds a client, *)
(* works on the keyring, and ends.                                         *)
(***************************************************************************)
\* CatLinkAPI(verify=verify): api_base = DEFAULT_API_BASE.rstrip("/") + "/"
CatLinkAPI == [api_base |-> rstrip(DEFAULT_API_BASE, "/") \o "/", token |-> ""]

\* sys.exit(code) or the normal end of the command (code 0), with what
\* click.echo wrote to stdout and stderr
Exit(code, stdout, stderr) ==
    [kind |-> "exit", code |-> code, stdout |-> stdout, stderr |-> stderr]

\* _URL_TO_REGION.get(api_base, "unknown")
_region_name_from_url(base) ==
    IF \E i \in 1..Len(API_SERVERS) : API_SERVERS[i][2] = base
    THEN API_SERVERS[CHOOSE i \in 1..Len(API_SERVERS) : API_SERVERS[i][2] = base][1]
    ELSE "unknown"

\* except CatLinkAPIError as exc: echo, sys.exit(1); other exceptions propagate
Except(out) ==
    IF out.exc.type = "CatLinkAPIError"
    THEN Exit(1, <<>>, <<"Error: " \o StrExc(out.exc)>>)
    ELSE out

Connected(region_name, base) ==
    "Login successful. Connected to " \o region_name \o " (" \o base \o ")."

\* the lines echoed for the successes of login_all_regions
SuccessLines(successes) ==
    IF Len(successes) = 1
    THEN <<Connected(successes[1][1], successes[1][2])>>
    ELSE <<"Login successful for " \o ToString(Len(successes)) \o " region(s).">>
         \o [i \in 1..Len(successes) |->
                "  " \o successes[i][1] \o ": " \o successes[i][2]]

Warnings(errors) ==
    [i \in 1..Len(errors) |-> "Warning (" \o errors[i][1] \o "): " \o errors[i][2]]

RegionErrors(errors) ==
    [i \in 1..Len(errors) |-> errors[i][1] \o ": " \o errors[i][2]]

\* for region_name, api_base, token in successes: save_credentials(...)
RECURSIVE SaveAll(_, _, _)
SaveAll(st, successes, a) ==
    IF Len(successes) = 0 THEN st
    ELSE SaveAll(save_credentials(st, successes[1][3], a.phone, a.phone_iac,
                                  successes[1][2], a.verify),
                 Tail(successes), a)

\* the calls of save_credentials made for the successes, in order
Saves(successes, a) ==
    [i \in 1..Len(successes) |->
        <<successes[i][3], a.phone, a.phone_iac, successes[i][2], a.verify>>]

\* the login command with region "auto", after r = client.login_all_regions(...)
LoginAllDone(st, a, r) ==
    IF r.out.kind = "raise"
    THEN [c |-> r.c, st |-> st, sent |-> r.sent, saves |-> <<>>, out |-> Except(r.out)]
    ELSE IF Len(r.out.value[1]) = 0
    THEN [c |-> r.c, st |-> st, sent |-> r.sent, saves |-> <<>>,
          out |-> Exit(1, <<>>,
                       <<"Error: Login failed on all regions: "
                         \o join("; ", RegionErrors(r.out.value[2]))>>)]
    ELSE [c |-> r.c, st |-> SaveAll(st, r.out.value[1], a), sent |-> r.sent,
          saves |-> Saves(r.out.value[1], a),
          out |-> Exit(0, SuccessLines(r.out.value[1]), Warnings(r.out.value[2]))]

\* the login command with a named region, after l = client.login(...)
LoginOneDone(st, a, base, l) ==
    IF l.out.kind = "raise"
    THEN [c |-> l.c, st |-> st, sent |-> l.sent, saves |-> <<>>, out |-> Except(l.out)]
    ELSE [c |-> l.c,
          st |-> save_credentials(st, l.out.value, a.phone, a.phone_iac, base, a.verify),
          sent |-> l.sent,
          saves |-> <<<<l.out.value, a.phone, a.phone_iac, base, a.verify>>>>,
          out |-> Exit(0, <<Connected(_region_name_from_url(base), base)>>, <<>>)]

\* finally: client.close(), whatever the body did
Finally(body) == [closed |-> TRUE] @@ body

\* cli.py login(phone, iac, password, region, no_verify), a.verify = not no_verify
cli_login(st, a) ==
    Finally(IF a.region = "auto"
            THEN LoginAllDone(st, a, login_all_regions(CatLinkAPI, a))
            ELSE LoginOneDone(st, a, ServerOf(a.region, None),
                              login([CatLinkAPI EXCEPT
                                         !.api_base = ServerOf(a.region, None)],
                                    a.phone_iac, a.phone, a.password, a.pad, a.now,
                                    a.replies[1])))

\* a variant that clears everything whatever the region
logout_ClearAll(st, region) ==
    [st |-> clear_credentials(st),
     invoked |-> <<<<"clear_credentials">>>>,
     out |-> Exit(0, <<"Credentials cleared.">>, <<>>)]

\* cli.py logout(region): which clear function it invokes, and what it echoes
logout(st, region) ==
    IF Truthy(region)
    THEN [st |-> clear_credentials_for_region(st, region),
          invoked |-> <<<<"clear_credentials_for_region", region>>>>,
          out |-> Exit(0, <<"Credentials cleared for region " \o region \o ".">>, <<>>)]
    ELSE [st |-> clear_credentials(st),
          invoked |-> <<<<"clear_credentials">>>>,
          out |-> Exit(0, <<"Credentials cleared.">>, <<>>)]

(***************************************************************************)
(* SpecStore: saves, loads, clears and the login and logout commands       *)
(* against one keyring                                                     *)
(***************************************************************************)
\* a keyring written before records were region-scoped: no api_base, no verify
StoreOldInstall ==
    set_password(set_password(set_password(EmptyStore, KEYRING_TOKEN_KEY, TokOld),
                              KEYRING_PHONE_KEY, Phone),
                 KEYRING_IAC_KEY, "1")

\* --region of logout and of the commands that load: a name, or None when absent
RegionOptions == {None, "global", "china", "usa"}

\* base URLs handed to save_credentials: a table URL without its trailing
\* slash, and one outside the table
SaveBases == {"https://app.catlinks.cn/api", CustomBase}

CliRegions == {"global", "china", "auto"}

\* the servers' replies to the login command, one per region asked
CliReplies(region) ==
    IF region = "auto"
    THEN {<<LoginOk(TokA), LoginBad, LoginBad, Transport>>,
          <<LoginBad, LoginOk(TokB), Transport, LoginBad>>,
          <<LoginOk(TokA), LoginOk(TokB), LoginBad, LoginBad>>,
          <<LoginOk(TokB), LoginOk(TokA), LoginLocked, Transport>>,
          <<LoginBad, LoginLocked, Transport, LoginBad>>,
          <<LoginOk(TokB), NonJson, LoginBad, LoginBad>>}
    ELSE {<<r>> : r \in LoginReplies}

\* a command runs to completion: r is its result, r.st the keyring it leaves
RunCommand(op, args, r) ==
    /\ call = NoCall
    /\ api_base' = r.c.api_base
    /\ token' = r.c.token
    /\ store' = r.st
    /\ call' = [op |-> op, args |-> args, before |-> Client, stored |-> store,
                sent |-> r.sent, out |-> r.out]

\* the login command runs to completion: which saves it made, whether it
\* closed its client
RunLogin(op, args, r) ==
    /\ call = NoCall
    /\ api_base' = r.c.api_base
    /\ token' = r.c.token
    /\ store' = r.st
    /\ call' = [op |-> op, args |-> args, before |-> Client, stored |-> store,
                sent |-> r.sent, saves |-> r.saves, closed |-> r.closed,
                out |-> r.out]

\* a function of the keyring alone runs to completion: the client is not involved
RunOnStore(op, args, st, invoked, out) ==
    /\ call = NoCall
    /\ store' = st
    /\ call' = [op |-> op, args |-> args, before |-> Client, stored |-> store,
                sent |-> <<>>, invoked |-> invoked, out |-> out]
    /\ UNCHANGED <<api_base, token>>

Logout ==
    \E region \in RegionOptions :
        RunOnStore("logout", [region |-> region], logout(store, region).st,
                   logout(store, region).invoked, logout(store, region).out)

LoadCredentials ==
    \E region \in RegionOptions :
        RunOnStore("_load_credentials", [region |-> region], store, <<>>,
                   Return(_load_credentials(store, region)))

LoadAllCredentials ==
    RunOnStore("_load_all_credentials", <<>>, store, <<>>,
               Return(_load_all_credentials(store)))

GetAuthenticatedClient ==
    \E region \in RegionOptions :
        RunOnStore("get_authenticated_client", [region |-> region], store, <<>>,
                   get_authenticated_client(store, region))

GetAuthenticatedClients ==
    \E region \in RegionOptions :
        RunOnStore("get_authenticated_clients", [region |-> region], store, <<>>,
                   get_authenticated_clients(store, region))

SaveCredentials ==
    \E tok \in NewTokens, base \in SaveBases, verify \in BOOLEAN :
        RunCommand("save_credentials",
                   [token |-> tok, phone |-> Phone, phone_iac |-> "86",
                    api_base |-> base, verify |-> verify],
                   [c |-> Client,
                    st |-> save_credentials(store, tok, Phone, "86", base, verify),
                    sent |-> <<>>, out |-> Return(None)])

CliLogin ==
    \E region \in CliRegions, no_verify \in BOOLEAN, pad \in Pads, now \in Times :
        \E replies \in CliReplies(region) :
            RunLogin("cli login",
                       [phone |-> Phone, phone_iac |-> "86", password |-> "secret",
                        region |-> region, verify |-> ~no_verify],
                       cli_login(store,
                                 [phone |-> Phone, phone_iac |-> "86",
                                  password |-> "secret", region |-> region,
                                  verify |-> ~no_verify, pad |-> pad, now |-> now,
                                  replies |-> replies]))

\* the process ends: its client is gone, the keyring stays
CommandExit ==
    /\ call # NoCall
    /\ call' = NoCall
    /\ api_base' = DEFAULT_API_BASE
    /\ token' = ""
    /\ UNCHANGED store

InitStore ==
    /\ api_base = DEFAULT_API_BASE
    /\ token = ""
    /\ store \in {EmptyStore, StoreOldInstall}
    /\ call = NoCall

NextStore ==
    \/ SaveCredentials
    \/ CliLogin
    \/ Logout
    \/ LoadCredentials
    \/ LoadAllCredentials
    \/ GetAuthenticatedClient
    \/ GetAuthenticatedClients
    \/ CommandExit

SpecStore == InitStore /\ [][NextStore]_vars

(***************************************************************************)
(* C10.  save_credentials writes both records: after a save whose api_base *)
(* resolves to region R, the legacy keys (token, phone, phone_iac,         *)
(* api_base, verify) and the keys of R all hold the saved values; after a  *)
(* successful login followed by the save, the client's token is the        *)
(* returned token and the store holds the legacy and the region record     *)
(* for that token.                                                         *)
(***************************************************************************)
Holds(st, key, value) == key \in DOMAIN st /\ st[key] = value

HoldsRecord(st, suffix, tok, phone, phone_iac, base, verify) ==
    /\ Holds(st, KEYRING_TOKEN_KEY \o suffix, tok)
    /\ Holds(st, KEYRING_PHONE_KEY \o suffix, phone)
    /\ Holds(st, KEYRING_IAC_KEY \o suffix, phone_iac)
    /\ Holds(st, KEYRING_API_BASE_KEY \o suffix, base)
    /\ Holds(st, KEYRING_VERIFY_KEY \o suffix, IF verify THEN "True" ELSE "False")

ResolvesTo(base, i) ==
    base = API_SERVERS[i][2] \/ base \o "/" = API_SERVERS[i][2]

HoldsBoth(st, tok, phone, phone_iac, base, verify) ==
    /\ HoldsRecord(st, "", tok, phone, phone_iac, base, verify)
    /\ \A i \in 1..Len(API_SERVERS) :
           ResolvesTo(base, i) =>
               HoldsRecord(st, ":" \o API_SERVERS[i][1], tok, phone, phone_iac,
                           base, verify)

C10_SaveWritesBothRecords ==
    /\ call.op = "save_credentials" =>
           HoldsBoth(store, call.args.token, call.args.phone, call.args.phone_iac,
                     call.args.api_base, call.args.verify)
    /\ (/\ call.op = "cli login"
        /\ call.args.region # "auto"
        /\ LoginSucceeded(call.sent[1].reply)) =>
           /\ token = call.sent[1].reply.body.data.token
           /\ \E i \in 1..Len(API_SERVERS) :
                  /\ API_SERVERS[i][1] = call.args.region
                  /\ ResolvesTo(API_SERVERS[i][2], i)
                  /\ HoldsBoth(store, token, call.args.phone, call.args.phone_iac,
                               API_SERVERS[i][2], call.args.verify)

C10_Witness ==
    /\ call.op = "save_credentials"
    /\ call.args.api_base = "https://app.catlinks.cn/api"
    /\ call.args.token = TokB
    /\ Holds(call.stored, KEYRING_TOKEN_KEY \o ":global", TokA)
    /\ Holds(store, KEYRING_TOKEN_KEY \o ":global", TokB)
    /\ Holds(store, KEYRING_TOKEN_KEY, TokB)

(***************************************************************************)
(* C11.  Regions are isolated and a region holds one record: a save whose  *)
(* api_base resolves to R makes load(R) return exactly the saved token,    *)
(* phone, country code, api_base and verify flag; every command that       *)
(* neither saves to R nor clears R (a save or login for another region     *)
(* included) leaves what load(R) returns unchanged.  Hence load(R) is the  *)
(* most recent save to R as long as R was not cleared since.               *)
(***************************************************************************)
LoginWrote(c, i) ==
    /\ c.op = "cli login"
    /\ c.out.kind = "exit"
    /\ c.out.code = 0
    /\ IF c.args.region = "auto"
       THEN i <= Len(c.sent) /\ LoginSucceeded(c.sent[i].reply)
       ELSE c.args.region = API_SERVERS[i][1] /\ LoginSucceeded(c.sent[1].reply)

SavesTo(c, i) ==
    \/ c.op = "save_credentials" /\ ResolvesTo(c.args.api_base, i)
    \/ LoginWrote(c, i)

Clears(c, i) ==
    c.op = "logout" /\ c.args.region \in {None, API_SERVERS[i][1]}

SavedRecord(c, i) ==
    IF c.op = "save_credentials"
    THEN [token |-> c.args.token, phone |-> c.args.phone,
          phone_iac |-> c.args.phone_iac, api_base |-> c.args.api_base,
          verify |-> c.args.verify]
    ELSE [token |-> c.sent[IF c.args.region = "auto" THEN i ELSE 1].reply.body.data.token,
          phone |-> c.args.phone, phone_iac |-> c.args.phone_iac,
          api_base |-> API_SERVERS[i][2], verify |-> c.args.verify]

RegionStep(i) ==
    IF SavesTo(call', i)
    THEN _load_credentials(store', API_SERVERS[i][1]) = SavedRecord(call', i)
    ELSE Clears(call', i)
         \/ _load_credentials(store', API_SERVERS[i][1])
                = _load_credentials(store, API_SERVERS[i][1])

C11_RegionIsolation == [][\A i \in 1..Len(API_SERVERS) : RegionStep(i)]_vars

C11_Witness ==
    /\ call.op = "save_credentials"
    /\ call.args.api_base = "https://app.catlinks.cn/api"
    /\ call.args.token = TokA
    /\ _load_credentials(call.stored, "global") = NoDict
    /\ _load_credentials(call.stored, "china") # NoDict
    /\ _load_credentials(call.stored, "china").token = TokB
    /\ _load_credentials(store, "china") = _load_credentials(call.stored, "china")
    /\ _load_credentials(store, "global").token = TokA

(***************************************************************************)
(* C12.  load(region) with a region given uses that region's record only:  *)
(* it returns a record exactly when a token is stored under that region's  *)
(* key, nothing otherwise (whatever legacy or other region's token is      *)
(* stored), and the token it returns is the region-scoped one.             *)
(***************************************************************************)
HasToken(st, suffix) ==
    ("token" \o suffix) \in DOMAIN st /\ st["token" \o suffix] # ""

C12_LoadRegionOnly ==
    (call.op = "_load_credentials" /\ call.args.region # None) =>
        /\ (call.out.value # NoDict) <=> HasToken(store, ":" \o call.args.region)
        /\ call.out.value # NoDict =>
               call.out.value.token = store["token:" \o call.args.region]

C12_Witness ==
    /\ call.op = "_load_credentials"
    /\ call.args.region = "china"
    /\ HasToken(store, "")
    /\ HasToken(store, ":global")
    /\ ~HasToken(store, ":china")
    /\ call.out = Return(NoDict)

(***************************************************************************)
(* C13.  load() with no region: if the stored legacy api_base maps to a    *)
(* known region and that region has a stored token, that region's record   *)
(* is returned; otherwise the legacy record is returned if a legacy token  *)
(* exists; otherwise nothing.                                              *)
(***************************************************************************)
LegacyRegions(st) ==
    {i \in 1..Len(API_SERVERS) :
        /\ "api_base" \in DOMAIN st
        /\ ResolvesTo(st["api_base"], i)
        /\ HasToken(st, ":" \o API_SERVERS[i][1])}

StoredOr(st, key, default) ==
    IF key \in DOMAIN st /\ st[key] # "" THEN st[key] ELSE default

C13_LoadResolution ==
    (call.op = "_load_credentials" /\ call.args.region = None) =>
        IF LegacyRegions(store) # {}
        THEN \E i \in LegacyRegions(store) :
                 /\ call.out.value # NoDict
                 /\ call.out.value.token = store["token:" \o API_SERVERS[i][1]]
                 /\ call.out.value.api_base =
                        StoredOr(store, "api_base:" \o API_SERVERS[i][1], API_SERVERS[i][2])
        ELSE IF HasToken(store, "")
        THEN /\ call.out.value # NoDict
             /\ call.out.value.token = store["token"]
             /\ call.out.value.phone = StoredOr(store, "phone", "")
             /\ call.out.value.phone_iac = StoredOr(store, "phone_iac", "86")
             /\ call.out.value.api_base = StoredOr(store, "api_base", "https://app.catlinks.cn/api/")
             /\ call.out.value.verify = (StoredOr(store, "verify", "True") # "False")
        ELSE call.out.value = NoDict

C13_Witness ==
    /\ call.op = "_load_credentials"
    /\ call.args.region = None
    /\ "api_base" \in DOMAIN store
    /\ ResolvesTo(store["api_base"], 1)
    /\ ~HasToken(store, ":global")
    /\ HasToken(store, ":china")
    /\ call.out.value # NoDict
    /\ call.out.value.token = store["token"]
    /\ call.out.value.token # store["token:china"]

(***************************************************************************)
(* C14.  load_all() returns one (region, record) entry for every region    *)
(* with a stored token and for no other region, in table order, each with  *)
(* that region's own token and api_base; only when no region has a token   *)
(* does it return the single legacy record, tagged with the region its     *)
(* api_base resolves to or "default"; with neither it returns no entry.    *)
(***************************************************************************)
RegionsWithToken(st) ==
    {i \in 1..Len(API_SERVERS) : HasToken(st, ":" \o API_SERVERS[i][1])}

RegionIndex(name) == CHOOSE i \in 1..Len(API_SERVERS) : API_SERVERS[i][1] = name

LegacyTag(st) ==
    IF \E i \in 1..Len(API_SERVERS) :
           ResolvesTo(StoredOr(st, "api_base", "https://app.catlinks.cn/api/"), i)
    THEN API_SERVERS[CHOOSE i \in 1..Len(API_SERVERS) :
             ResolvesTo(StoredOr(st, "api_base", "https://app.catlinks.cn/api/"), i)][1]
    ELSE "default"

C14_LoadAll ==
    call.op = "_load_all_credentials" =>
        LET entries == call.out.value
        IN  IF RegionsWithToken(store) # {}
            THEN /\ Len(entries) = Cardinality(RegionsWithToken(store))
                 /\ \A j \in 1..Len(entries) :
                        /\ entries[j][1] \in Regions
                        /\ RegionIndex(entries[j][1]) \in RegionsWithToken(store)
                        /\ entries[j][2].token = store["token:" \o entries[j][1]]
                        /\ entries[j][2].api_base =
                               StoredOr(store, "api_base:" \o entries[j][1],
                                        API_SERVERS[RegionIndex(entries[j][1])][2])
                 /\ \A j, k \in 1..Len(entries) :
                        j < k => RegionIndex(entries[j][1]) < RegionIndex(entries[k][1])
            ELSE IF HasToken(store, "")
            THEN /\ Len(entries) = 1
                 /\ entries[1][1] = LegacyTag(store)
                 /\ entries[1][2].token = store["token"]
            ELSE entries = <<>>

C14_Witness ==
    /\ call.op = "_load_all_credentials"
    /\ Len(call.out.value) = 2
    /\ call.out.value[1][1] = "global"
    /\ call.out.value[2][1] = "china"
    /\ call.out.value[1][2].token # call.out.value[2][2].token
    /\ call.out.value[1][2].api_base # call.out.value[2][2].api_base
    /\ store["token"] = call.out.value[1][2].token

(***************************************************************************)
(* C15.  clear() with no region deletes every stored key (the five legacy  *)
(* keys and the five keys of every region), succeeds when keys are missing *)
(* and is idempotent; after it load(), load(R) for every region R and      *)
(* load_all() return nothing and get_authenticated_client /                *)
(* get_authenticated_clients raise the "Not logged in" error.              *)
(***************************************************************************)
FieldNames == {"token", "phone", "phone_iac", "api_base", "verify"}

Suffixes == {""} \cup {":" \o API_SERVERS[i][1] : i \in 1..Len(API_SERVERS)}

AllKeys == {f \o x : f \in FieldNames, x \in Suffixes}

IsNotLoggedIn(out) ==
    /\ out.kind = "raise"
    /\ out.exc.type = "CatLinkAPIError"
    /\ out.exc.message = "Not logged in. Run 'catlink login' first."

Cleared(st) == DOMAIN st \cap AllKeys = {}

C15_ClearAll ==
    /\ (call.op = "logout" /\ call.args.region = None) =>
           /\ Cleared(store)
           /\ call.out.kind = "exit" /\ call.out.code = 0
           /\ clear_credentials(store) = store
    /\ (call.op \in {"_load_credentials", "_load_all_credentials"} /\ Cleared(store)) =>
           call.out.value \in {NoDict, <<>>}
    /\ (call.op \in {"get_authenticated_client", "get_authenticated_clients"}
            /\ Cleared(store)) =>
           IsNotLoggedIn(call.out)

C15_Witness ==
    /\ call.op = "logout"
    /\ call.args.region = None
    /\ HasToken(call.stored, "")
    /\ HasToken(call.stored, ":global")
    /\ HasToken(call.stored, ":china")
    /\ Cleared(store)

(***************************************************************************)
(* C16.  clear(region) deletes only that region's keys: after clear(R)     *)
(* load(R) returns nothing while the legacy keys and every other region's  *)
(* keys are unchanged; "logout --region R" invokes the region-scoped clear *)
(* for R and never the clear-all operation.                                *)
(***************************************************************************)
KeysOf(region) == {f \o ":" \o region : f \in FieldNames}

C16_ClearRegion ==
    (call.op = "logout" /\ call.args.region # None) =>
        /\ _load_credentials(store, call.args.region) = NoDict
        /\ DOMAIN store \cap KeysOf(call.args.region) = {}
        /\ DOMAIN store = DOMAIN call.stored \ KeysOf(call.args.region)
        /\ \A k \in DOMAIN store : store[k] = call.stored[k]
        /\ call.invoked = <<<<"clear_credentials_for_region", call.args.region>>>>

C16_Witness ==
    /\ call.op = "logout"
    /\ call.args.region = "global"
    /\ HasToken(call.stored, ":global")
    /\ ~HasToken(store, ":global")
    /\ HasToken(store, ":china")
    /\ HasToken(store, "")

(***************************************************************************)
(* SpecMerge: _merge_devices as a function of its two lists                *)
(***************************************************************************)
MaxDevices == 2

\* device records as the server sends them: the identity under id (a string
\* or a number), under deviceId or under mac, a falsy id, or no key at all
MergeItems ==
    {[id |-> JString("1"), deviceName |-> "a"],
     [id |-> JInt(1), deviceName |-> "b"],
     [deviceId |-> JString("1"), deviceName |-> "c"],
     [id |-> JInt(0), deviceId |-> JString("2"), mac |-> JString("1")],
     [mac |-> JString("2"), deviceName |-> "e"],
     [deviceName |-> "f"]}

DeviceLists == UNION {[1..k -> MergeItems] : k \in 0..MaxDevices}

MergeDevices ==
    /\ call.op = "lists"
    /\ call' = [op |-> "_merge_devices", primary |-> call.primary, extra |-> call.extra,
                out |-> _merge_devices(call.primary, call.extra)]
    /\ UNCHANGED <<api_base, token, store>>

InitMerge ==
    /\ api_base = DEFAULT_API_BASE
    /\ token = ""
    /\ store = EmptyStore
    /\ call \in {[op |-> "lists", primary |-> p, extra |-> e] :
                    p \in DeviceLists, e \in DeviceLists}

NextMerge == MergeDevices

SpecMerge == InitMerge /\ [][NextMerge]_vars

\* the identity of an item as text, "" when it has none
FieldText(dev, key) ==
    IF key \notin DOMAIN dev THEN ""
    ELSE IF dev[key].t = "int" THEN (IF dev[key].n = 0 THEN "" ELSE ToString(dev[key].n))
    ELSE dev[key].s

IdentityOf(dev) ==
    IF FieldText(dev, "id") # "" THEN FieldText(dev, "id")
    ELSE IF FieldText(dev, "deviceId") # "" THEN FieldText(dev, "deviceId")
    ELSE FieldText(dev, "mac")

\* the positions of a list whose item has no identity or is the first with its identity
FirstSeen(all) ==
    {p \in 1..Len(all) :
        IdentityOf(all[p]) = ""
        \/ \A q \in 1..(p - 1) : IdentityOf(all[q]) # IdentityOf(all[p])}

\* the items of a list at the positions of P, in the order of the list
Picked(all, P) ==
    [j \in 1..Cardinality(P) |->
        all[CHOOSE p \in P : Cardinality({q \in P : q < p}) = j - 1]]

NoSharedIdentity(list) ==
    \A j, k \in 1..Len(list) :
        (j # k /\ IdentityOf(list[j]) # "") => IdentityOf(list[j]) # IdentityOf(list[k])

(***************************************************************************)
(* C17 (as stated).  merge(primary, extra) lists the primary items in      *)
(* primary order, followed by exactly those extra items whose identity was *)
(* not seen earlier, in extra order; no two items of the result share an   *)
(* identity.                                                               *)
(***************************************************************************)
C17_MergeAsStated ==
    call.op = "_merge_devices" =>
        LET all == call.primary \o call.extra
        IN  /\ call.out =
                   call.primary
                   \o Picked(all, {p \in FirstSeen(all) : p > Len(call.primary)})
            /\ NoSharedIdentity(call.out)

(***************************************************************************)
(* C17 (amended).  merge(primary, extra) lists the primary items whose     *)
(* identity was not seen earlier in primary order, followed by exactly     *)
(* those extra items whose identity was not seen earlier, in extra order;  *)
(* no two items of the result share an identity; a primary list without    *)
(* repeated identities is listed whole.                                    *)
(***************************************************************************)
C17_MergeKeepsOrder ==
    call.op = "_merge_devices" =>
        LET all == call.primary \o call.extra
        IN  /\ call.out =
                   Picked(call.primary, FirstSeen(call.primary))
                   \o Picked(all, {p \in FirstSeen(all) : p > Len(call.primary)})
            /\ NoSharedIdentity(call.out)
            /\ NoSharedIdentity(call.primary) =>
                   SubSeq(call.out, 1, Len(call.primary)) = call.primary

C17_Witness ==
    /\ call.op = "_merge_devices"
    /\ call.primary = <<[id |-> JString("1"), deviceName |-> "a"],
                        [mac |-> JString("2"), deviceName |-> "e"]>>
    /\ call.extra = <<[id |-> JInt(0), deviceId |-> JString("2"), mac |-> JString("1")],
                      [deviceName |-> "f"]>>
    /\ call.out = <<[id |-> JString("1"), deviceName |-> "a"],
                    [mac |-> JString("2"), deviceName |-> "e"],
                    [deviceName |-> "f"]>>

(***************************************************************************)
(* C18.  An item's identity key is its id, else its deviceId, else its     *)
(* mac; of the items sharing an identity the first occurrence is the one   *)
(* kept; an item with none of the three keys is always kept, however many  *)
(* there are and whatever else is in the lists.                            *)
(***************************************************************************)
Keyless(dev) == DOMAIN dev \cap {"id", "deviceId", "mac"} = {}

Count(list, Test(_)) == Cardinality({p \in 1..Len(list) : Test(list[p])})

C18_MergeIdentity ==
    call.op = "_merge_devices" =>
        LET all == call.primary \o call.extra
        IN  /\ \A p \in 1..Len(all) :
                   IdentityOf(all[p]) # "" =>
                       \E j \in 1..Len(call.out) :
                           /\ IdentityOf(call.out[j]) = IdentityOf(all[p])
                           /\ call.out[j] =
                                  all[CHOOSE q \in 1..Len(all) :
                                          /\ IdentityOf(all[q]) = IdentityOf(all[p])
                                          /\ \A r \in 1..(q - 1) :
                                                 IdentityOf(all[r]) # IdentityOf(all[p])]
                           /\ \A k \in 1..Len(call.out) :
                                  IdentityOf(call.out[k]) = IdentityOf(all[p]) => k = j
            /\ Count(call.out, Keyless) = Count(all, Keyless)

C18_Witness ==
    /\ call.op = "_merge_devices"
    /\ call.primary = <<[deviceName |-> "f"],
                        [deviceId |-> JString("1"), deviceName |-> "c"]>>
    /\ call.extra = <<[id |-> JInt(1), deviceName |-> "b"], [deviceName |-> "f"]>>
    /\ call.out = <<[deviceName |-> "f"],
                    [deviceId |-> JString("1"), deviceName |-> "c"],
                    [deviceName |-> "f"]>>

(***************************************************************************)
(* C19.  get_devices issues the alternate-filter queries (type FEEDER,     *)
(* then type ALL) exactly when the validated primary list (type NONE) has  *)
(* no FEEDER device; the result is then every primary device in primary    *)
(* order plus only the not-yet-seen devices of the fallback responses, a   *)
(* fallback query failing with an API or transport error being skipped;    *)
(* a primary list with a FEEDER device is returned as is with no further   *)
(* query; a failing primary query fails get_devices.                       *)
(***************************************************************************)
TypeQueries(sent, type) ==
    {i \in 1..Len(sent) : ~IsLogin(sent[i]) /\ sent[i].args = << <<"type", type>> >>}

LastOf(S) == CHOOSE i \in S : \A j \in S : j <= i

\* the query of this type was made and its last response passed validation
Validated(sent, type) ==
    /\ TypeQueries(sent, type) # {}
    /\ GotSuccess(sent[LastOf(TypeQueries(sent, type))].reply)

DevicesIn(body) ==
    IF "data" \in DOMAIN body /\ "devices" \in DOMAIN body.data
    THEN body.data.devices
    ELSE <<>>

\* the devices a query of this type contributed: none when it failed
ListedBy(sent, type) ==
    IF Validated(sent, type)
    THEN DevicesIn(sent[LastOf(TypeQueries(sent, type))].reply.body)
    ELSE <<>>

Feederless(devices) ==
    \A i \in 1..Len(devices) :
        "deviceType" \in DOMAIN devices[i] => devices[i].deviceType # "FEEDER"

Unparseable(sent) == \E i \in 1..Len(sent) : sent[i].reply.kind = "nonjson"

Deduped(list) == Picked(list, FirstSeen(list))

WithUnseen(list, extra) == IF Len(extra) > 0 THEN Deduped(list \o extra) ELSE list

C19_DeviceListFallback ==
    call.op = "get_devices" =>
        LET sent == call.sent
            needed == Validated(sent, "NONE") /\ Feederless(ListedBy(sent, "NONE"))
        IN  /\ TypeQueries(sent, "NONE") # {}
            /\ (TypeQueries(sent, "FEEDER") # {}) <=> needed
            /\ TypeQueries(sent, "ALL") # {} =>
                   /\ needed
                   /\ \A i \in TypeQueries(sent, "FEEDER"), j \in TypeQueries(sent, "ALL") :
                          i < j
            /\ (needed /\ ~Unparseable(sent)) =>
                   /\ TypeQueries(sent, "ALL") # {}
                   /\ call.out =
                          Return(WithUnseen(WithUnseen(ListedBy(sent, "NONE"),
                                                       ListedBy(sent, "FEEDER")),
                                            ListedBy(sent, "ALL")))
            /\ (Validated(sent, "NONE") /\ ~Feederless(ListedBy(sent, "NONE"))) =>
                   /\ call.out = Return(ListedBy(sent, "NONE"))
                   /\ Len(sent) = LastOf(TypeQueries(sent, "NONE"))
            /\ ~Validated(sent, "NONE") => call.out.kind = "raise"

C19_Witness ==
    /\ call.op = "get_devices"
    /\ Len(call.sent) = 3
    /\ call.sent[1].reply = Ok([devices |-> <<Scooper1, Scooper1Again>>])
    /\ call.sent[2].reply = Failed
    /\ call.sent[3].reply = Ok([devices |-> <<Scooper1, Feeder2>>])
    /\ call.out = Return(<<Scooper1, Feeder2>>)

(***************************************************************************)
(* SpecSign: _params_sign as a function of the parameter map               *)
(***************************************************************************)
MaxParams == 3

SignKeys == {"type", "deviceId", "deviceType", "noncestr", "cmd"}

SignValues == {"1", "NONE"}

\* the maps of up to MaxParams entries, in every insertion order
SignMaps ==
    {m \in UNION {[1..k -> SignKeys \X SignValues] : k \in 0..MaxParams} :
        \A i, j \in 1..Len(m) : i # j => m[i][1] # m[j][1]}

ParamsSign ==
    /\ call.op = "params"
    /\ call' = [op |-> "_params_sign", pms |-> call.pms, out |-> _params_sign(call.pms)]
    /\ UNCHANGED <<api_base, token, store>>

InitSign ==
    /\ api_base = DEFAULT_API_BASE
    /\ token = ""
    /\ store = EmptyStore
    /\ call \in {[op |-> "params", pms |-> m] : m \in SignMaps}

NextSign == ParamsSign

SpecSign == InitSign /\ [][NextSign]_vars

(***************************************************************************)
(* C20.  sign(params) is the uppercase-hex MD5 of the string built by      *)
(* sorting the entries by key, rendering each as "key=value", joining them *)
(* with "&" and appending "key=<shared secret>" as the last element; the   *)
(* result depends on the entries only, not on their insertion order, and   *)
(* the empty map signs exactly "key=<shared secret>".                      *)
(***************************************************************************)
Ordinals == "0123456789ABCDEFGHIJKLMNOPQRSTUVWXYZ_abcdefghijklmnopqrstuvwxyz"

Ordinal(ch) == CHOOSE i \in 1..Len(Ordinals) : SubSeq(Ordinals, i, i) = ch

\* a sorts before b in ordinal order
RECURSIVE StrLess(_, _)
StrLess(a, b) ==
    IF Len(b) = 0 THEN FALSE
    ELSE IF Len(a) = 0 THEN TRUE
    ELSE IF SubSeq(a, 1, 1) = SubSeq(b, 1, 1)
    THEN StrLess(SubSeq(a, 2, Len(a)), SubSeq(b, 2, Len(b)))
    ELSE Ordinal(SubSeq(a, 1, 1)) < Ordinal(SubSeq(b, 1, 1))

\* the entry of pms with exactly j - 1 keys before its own
EntryAt(pms, j) ==
    pms[CHOOSE i \in 1..Len(pms) :
            Cardinality({k \in 1..Len(pms) : StrLess(pms[k][1], pms[i][1])}) = j - 1]

RECURSIVE SigningString(_, _)
SigningString(pms, j) ==
    IF j > Len(pms) THEN "key=" \o SIGN_KEY
    ELSE EntryAt(pms, j)[1] \o "=" \o EntryAt(pms, j)[2] \o "&" \o SigningString(pms, j + 1)

C20_SignIsSortedDigest ==
    call.op = "_params_sign" =>
        /\ call.out = "MD5[" \o SigningString(call.pms, 1) \o "]"
        /\ Len(call.pms) = 0 => call.out = "MD5[key=" \o SIGN_KEY \o "]"
        /\ \A i, j \in 1..Len(ParamOrder) :
               i < j => StrLess(ParamOrder[i], ParamOrder[j])

C20_Witness ==
    /\ call.op = "_params_sign"
    /\ call.pms = << <<"type", "NONE">>, <<"deviceType", "1">>, <<"deviceId", "1">> >>
    /\ call.out = "MD5[deviceId=1&deviceType=1&type=NONE&key=" \o SIGN_KEY \o "]"

(***************************************************************************)
(* SpecUrl: the request URL as a function of the base given to the         *)
(* constructor and of the path given to the call                           *)
(***************************************************************************)
UrlBases ==
    {DEFAULT_API_BASE, API_SERVERS[2][2], "https://example.com/api/",
     "https://example.com/api", "https://example.com/api//", "http://localhost:8080"}

\* the paths of the client's calls, with and without leading slashes, and
\* absolute URLs
UrlPaths ==
    {"login/password", "/login/password", "//login/password", DEVICES_API,
     "/" \o DEVICES_API, "token/device/info", "",
     "https://other.example.com/login/password", "http://localhost:9/x"}

ApiUrl ==
    /\ call.op = "path"
    /\ call' = [op |-> "_api_url", base |-> call.base, api |-> call.api,
                out |-> _api_url(__init__(call.base, None), call.api)]
    /\ UNCHANGED <<api_base, token, store>>

InitUrl ==
    /\ api_base = DEFAULT_API_BASE
    /\ token = ""
    /\ store = EmptyStore
    /\ call \in {[op |-> "path", base |-> b, api |-> p] : b \in UrlBases, p \in UrlPaths}

NextUrl == ApiUrl

SpecUrl == InitUrl /\ [][NextUrl]_vars

(***************************************************************************)
(* C21.  For a relative path the request URL is the base without its       *)
(* trailing slashes, one "/", and the path without its leading slashes; a  *)
(* path that begins with a scheme is the request URL as it stands,         *)
(* whatever the base.                                                      *)
(***************************************************************************)
HasScheme(s) ==
    \E scheme \in {"http://", "https://"} :
        Len(s) >= Len(scheme) /\ SubSeq(s, 1, Len(scheme)) = scheme

Slashes(s) == \A k \in 1..Len(s) : SubSeq(s, k, k) = "/"

\* url is head, one "/", and rest, where base is head followed by slashes
\* only and path is slashes only followed by rest
JoinedWithOneSlash(url, base, path) ==
    \E i \in 0..Len(base), j \in 0..Len(path) :
        /\ Slashes(SubSeq(base, i + 1, Len(base)))
        /\ i > 0 => SubSeq(base, i, i) # "/"
        /\ Slashes(SubSeq(path, 1, j))
        /\ j < Len(path) => SubSeq(path, j + 1, j + 1) # "/"
        /\ url = SubSeq(base, 1, i) \o "/" \o SubSeq(path, j + 1, Len(path))

C21_UrlJoin ==
    call.op = "_api_url" =>
        IF HasScheme(call.api)
        THEN call.out = call.api
        ELSE JoinedWithOneSlash(call.out, call.base, call.api)

C21_Witness ==
    /\ call.op = "_api_url"
    /\ call.base = "https://example.com/api"
    /\ call.api = "/login/password"
    /\ call.out = "https://example.com/api/login/password"

(***************************************************************************)
(* C22.  login sends a password of more than 16 characters unchanged as    *)
(* the "password" parameter, and sends encrypt_password(password) in place *)
(* of a password of 16 characters or fewer, exactly 16 included.           *)
(***************************************************************************)
SentPassword == DictGet(call.sent[1].pms, "password")

C22_PasswordPolicy ==
    call.op = "login" =>
        IF Len(call.args[3]) > 16
        THEN SentPassword = call.args[3]
        ELSE /\ SentPassword # call.args[3]
             /\ \E pad \in Pads : SentPassword = encrypt_password(call.args[3], pad)

C22_Witness ==
    /\ call.op = "login"
    /\ Len(call.args[3]) = 16
    /\ SentPassword = encrypt_password(call.args[3], "r1")

(***************************************************************************)
(* The commands that fan out over the stored regions (cli.py).  A command  *)
(* ends with the record of what it did: the loads it invoked, the regions  *)
(* of the clients it created (clients) and of those it closed (closed),    *)
(* the outcome of the client's call in every region it reached (outs), the *)
(* requests of those calls (sent), and how the process ended (out): an     *)
(* Exit, or the exception that nothing caught.                             *)
(***************************************************************************)
\* DEVICE_MODES.get(device_type, {}).items()
DEVICE_MODES(device_type) ==
    IF device_type = "SCOOPER"
    THEN << <<"00", "auto">>, <<"01", "manual">>, <<"02", "time">>, <<"03", "empty">> >>
    ELSE IF device_type = "LITTER_BOX_599"
    THEN << <<"00", "auto">>, <<"01", "manual">>, <<"02", "time">> >>
    ELSE <<>>

\* DEVICE_ACTIONS.get(device_type, {}).items()
DEVICE_ACTIONS(device_type) ==
    IF device_type = "SCOOPER"
    THEN << <<"00", "pause">>, <<"01", "start">> >>
    ELSE IF device_type = "LITTER_BOX_599"
    THEN << <<"01", "clean">>, <<"00", "pause">> >>
    ELSE <<>>

WORK_STATUSES == << <<"00", "idle">>, <<"01", "running">>, <<"02", "need_reset">> >>

\* for k, v in table.items(): if v in labels: code = k; break
CodeOf(table, labels) ==
    IF \E i \in 1..Len(table) : table[i][2] \in labels
    THEN table[CHOOSE i \in 1..Len(table) :
                   /\ table[i][2] \in labels
                   /\ \A j \in 1..(i - 1) : table[j][2] \notin labels][1]
    ELSE None

\* table.get(code, default)
LabelOf(table, code, default) ==
    IF \E i \in 1..Len(table) : table[i][1] = code
    THEN table[CHOOSE i \in 1..Len(table) : table[i][1] = code][2]
    ELSE default

\* ", ".join(table.values())
Labels(table) == join(", ", [i \in 1..Len(table) |-> table[i][2]])

\* the command ends before it loads anything: echo to stderr, sys.exit(1)
Rejected(message) ==
    [invoked |-> <<>>, clients |-> <<>>, closed |-> <<>>, outs |-> <<>>,
     sent |-> <<>>, out |-> Exit(1, <<>>, <<message>>)]

\* clients = get_authenticated_clients(region=region); multi is len(clients) > 1
_load_clients(st, region) == get_authenticated_clients(st, region)

_echo_region_header(region, base, multi) ==
    IF multi THEN <<"Region: " \o region \o " (" \o base \o ")">> ELSE <<>>

ReadCommands == {"devices", "status", "logs", "cats", "cat-summary"}

\* the fallback listings of get_devices answer without devices
NoFallback == <<Ok(NoDict), Transport, Transport>>

\* the call of the client the command makes in one region; rs are the replies
\* of that region's server
RegionCall(cmd, a, c, st, rs) ==
    CASE cmd = "devices" -> get_devices(c, st, a.pad, a.now, <<rs, NoFallback, NoFallback>>)
      [] cmd = "status" ->
            get_device_detail(c, st, a.device_id, a.device_type, a.pad, a.now, rs)
      [] cmd = "mode" -> change_mode(c, a.device_id, a.code, a.device_type, a.now, rs[1])
      [] cmd \in {"action", "clean"} ->
            send_action(c, a.device_id, a.code, a.device_type, a.now, rs[1])
      [] cmd = "pause" -> send_action(c, a.device_id, "00", a.device_type, a.now, rs[1])
      [] cmd = "logs" ->
            get_device_logs(c, st, a.device_id, a.device_type, a.pad, a.now, rs)
      [] cmd = "feed" -> food_out(c, a.device_id, a.portions, a.now, rs[1])
      [] cmd = "reset-litter" ->
            reset_consumable(c, a.device_id, a.device_type, "CAT_LITTER", a.now, rs[1])
      [] cmd = "reset-deodorant" ->
            reset_consumable(c, a.device_id, a.device_type, "DEODORIZER_02", a.now, rs[1])
      [] cmd = "change-bag" -> replace_garbage_bag(c, a.device_id, TRUE, a.now, rs[1])
      [] cmd = "cats" -> get_cats(c, st, a.timezone_id, a.pad, a.now, rs)
      [] cmd = "cat-summary" ->
            get_cat_summary(c, st, a.pet_id, a.date, a.timezone_id, a.pad, a.now, rs)

\* f"  [{dtype}] {name}  (id={did}, model={model})"
DeviceLine(dev) ==
    "  [" \o GetDefault(dev, "deviceType", "unknown") \o "] "
        \o GetDefault(dev, "deviceName", "unnamed")
        \o "  (id=" \o (IF "id" \in DOMAIN dev THEN JStr(dev.id) ELSE "?")
        \o ", model=" \o GetDefault(dev, "model", "?") \o ")"

\* a line for a field that is not None
Present(d, key, label, unit) ==
    IF key \in DOMAIN d THEN <<label \o d[key] \o unit>> ELSE <<>>

\* a line for a field that is truthy
Filled(label, v) == IF Truthy(v) THEN <<label \o v>> ELSE <<>>

\* a reading that is not None and not "-"
Measured(d, key, label, unit) ==
    IF key \in DOMAIN d /\ d[key] # "-" THEN <<label \o d[key] \o unit>> ELSE <<>>

\* str(work_status).strip(): the statuses of the replies are strings
strip(s) == lstrip(rstrip(s, " "), " ")

\* the counters of the replies are JSON numbers, or absent
int(v) == v

_show_litter_box_status(detail, device_type) ==
    <<"State:             "
        \o LabelOf(WORK_STATUSES, strip(GetDefault(detail, "workStatus", "")),
                   GetDefault(detail, "workStatus", "")),
      "Mode:              "
        \o LabelOf(DEVICE_MODES(device_type), GetDefault(detail, "workModel", ""),
                   GetDefault(detail, "workModel", ""))>>
        \o Present(detail, "catLitterWeight", "Litter weight:     ", " kg")
        \o Present(detail, "litterCountdown", "Litter remaining:  ", " days")
        \o <<"Total cleans:      "
               \o ToString(int(GetDefault(detail, "inductionTimes", 0))
                           + int(GetDefault(detail, "manualTimes", 0))),
             "Manual cleans:     " \o ToString(int(GetDefault(detail, "manualTimes", 0)))>>
        \o Present(detail, "deodorantCountdown", "Deodorant days:    ", "")
        \o Measured(detail, "temperature", "Temperature:       ", " C")
        \o Measured(detail, "humidity", "Humidity:          ", "%")
        \o Filled("Error:             ",
                  Or(Get(detail, "currentMessage"), Get(detail, "currentError")))

_show_feeder_status(detail) ==
    Filled("Food out status:   ", GetDefault(detail, "foodOutStatus", ""))
        \o Present(detail, "weight", "Food weight:       ", " g")
        \o Filled("Auto-fill:         ", GetDefault(detail, "autoFillStatus", ""))
        \o Filled("Power supply:      ", GetDefault(detail, "powerSupplyStatus", ""))
        \o Filled("Key lock:          ", GetDefault(detail, "keyLockStatus", ""))
        \o Filled("Indicator light:   ", GetDefault(detail, "indicatorLightStatus", ""))
        \o Filled("Breath light:      ", GetDefault(detail, "breathLightStatus", ""))
        \o Filled("Firmware:          ", GetDefault(detail, "firmwareVersion", ""))
        \o Filled("Error:             ",
                  Or(Get(detail, "currentErrorMessage"),
                     Or(Get(detail, "error"), Get(detail, "currentMessage"))))

\* f"  [{ts}] {' '.join(parts)}"; an entry without event and msg shows as str(entry)
LogLine(entry) ==
    "  [" \o Or(Get(entry, "time"), Or(Get(entry, "createTime"), "")) \o "] "
        \o join(" ", <<Or(Get(entry, "event"), Or(Get(entry, "msg"), "{...}"))>>
                        \o Filled("", Get(entry, "firstSection"))
                        \o Filled("", Get(entry, "secondSection")))

CatLine(cat) ==
    "  " \o Or(Get(cat, "name"), Or(Get(cat, "petName"), "unnamed"))
        \o " (id=" \o Or(Get(cat, "id"), Or(Get(cat, "petId"), "?"))
        \o ", weight=" \o GetDefault(cat, "weight", "?") \o "kg"
        \o (IF Truthy(Or(Get(cat, "breedName"), Or(Get(cat, "breed"), "")))
            THEN ", breed=" \o Or(Get(cat, "breedName"), Get(cat, "breed"))
            ELSE "")
        \o ")"

\* for key, val in data.items(): f"  {key}: {val}", the keys from first to last
RECURSIVE SummaryLines(_, _)
SummaryLines(data, keys) ==
    IF keys = {} THEN <<>>
    ELSE <<"  " \o (CHOOSE k \in keys : TRUE) \o ": " \o data[CHOOSE k \in keys : TRUE]>>
             \o SummaryLines(data, keys \ {CHOOSE k \in keys : TRUE})

\* what the command echoes for a region whose call returned value
Lines(cmd, a, value) ==
    CASE cmd = "devices" -> [i \in 1..Len(value) |-> DeviceLine(value[i])]
      [] cmd = "status" ->
            <<"Online:            " \o GetDefault(value, "online", "?")>>
                \o (IF a.device_type = "FEEDER" THEN _show_feeder_status(value)
                    ELSE _show_litter_box_status(value, a.device_type))
      [] cmd = "logs" -> [i \in 1..Len(value) |-> LogLine(value[i])]
      [] cmd = "cats" -> [i \in 1..Len(value) |-> CatLine(value[i])]
      [] cmd = "cat-summary" -> SummaryLines(value, DOMAIN value)
      [] cmd = "mode" -> <<"Mode set to '" \o a.mode \o "'.">>
      [] cmd = "action" -> <<"Action '" \o a.action \o "' sent.">>
      [] cmd = "clean" -> <<"Cleaning started.">>
      [] cmd = "pause" -> <<"Device paused.">>
      [] cmd = "feed" -> <<"Dispensing " \o ToString(a.portions) \o " portion(s).">>
      [] cmd = "reset-litter" -> <<"Litter counter reset.">>
      [] cmd = "reset-deodorant" -> <<"Deodorant counter reset.">>
      [] cmd = "change-bag" -> <<"Garbage bag change triggered.">>

\* what a region adds to total_devices, shown, updated, sent or reset
Counted(cmd, value) ==
    IF cmd \in {"devices", "logs", "cats"} THEN Len(value) ELSE 1

NoneFound(cmd) ==
    CASE cmd = "devices" -> "No devices found."
      [] cmd = "status" -> "No detail returned for this device."
      [] cmd = "logs" -> "No logs found."
      [] cmd = "cats" -> "No cats found."
      [] cmd = "cat-summary" -> "No summary data returned."

\* errors, the counter and the echoed lines before the first region
NoRegions ==
    [errors |-> <<>>, count |-> 0, stdout |-> <<>>, outs |-> <<>>, sent |-> <<>>,
     raised |-> FALSE]

\* one round of "for region_name, client in clients", r being the result of the
\* client's call: a CatLinkAPIError is appended to errors, any other exception
\* leaves the loop, an empty result of a command that reads is skipped
RECURSIVE FanLoop(_, _, _, _, _, _)
FanStep(cmd, a, st, clients, i, acc, r) ==
    IF r.out.kind = "raise" /\ r.out.exc.type = "CatLinkAPIError"
    THEN FanLoop(cmd, a, st, clients, i + 1,
                 [acc EXCEPT !.errors = Append(@, <<clients[i][1], StrExc(r.out.exc)>>),
                             !.outs = Append(@, r.out),
                             !.sent = Append(@, r.sent)])
    ELSE IF r.out.kind = "raise"
    THEN [acc EXCEPT !.outs = Append(@, r.out), !.sent = Append(@, r.sent),
                     !.raised = TRUE]
    ELSE IF cmd \in ReadCommands /\ r.out.value = <<>>
    THEN FanLoop(cmd, a, st, clients, i + 1,
                 [acc EXCEPT !.outs = Append(@, r.out), !.sent = Append(@, r.sent)])
    ELSE FanLoop(cmd, a, st, clients, i + 1,
                 [acc EXCEPT !.outs = Append(@, r.out),
                             !.sent = Append(@, r.sent),
                             !.stdout = @ \o _echo_region_header(clients[i][1],
                                                                 r.c.api_base,
                                                                 Len(clients) > 1)
                                          \o Lines(cmd, a, r.out.value),
                             !.count = @ + Counted(cmd, r.out.value)])

FanLoop(cmd, a, st, clients, i, acc) ==
    IF i > Len(clients) THEN acc
    ELSE FanStep(cmd, a, st, clients, i, acc,
                 RegionCall(cmd, a, clients[i][2], st, a.replies[i]))

\* after the loop: the exception that left it, or the hard error, or the
\* lines with the warnings
FanDone(cmd, clients, acc) ==
    IF acc.raised THEN acc.outs[Len(acc.outs)]
    ELSE IF acc.count = 0
            /\ (cmd \in ReadCommands =>
                    Len(acc.errors) > 0 /\ Len(acc.errors) = Len(clients))
    THEN Exit(1, acc.stdout, <<"Error: " \o join("; ", RegionErrors(acc.errors))>>)
    ELSE IF acc.count = 0
    THEN Exit(0, Append(acc.stdout, NoneFound(cmd)), <<>>)
    ELSE Exit(0, acc.stdout, Warnings(acc.errors))

\* a variant that closes the clients at the normal end of the command only
CloseAll_AtNormalEnd(a, clients, acc, out) ==
    [invoked |-> <<<<"get_authenticated_clients", a.region>>>>,
     clients |-> [i \in 1..Len(clients) |-> clients[i][1]],
     closed |-> IF out.kind = "exit" /\ out.code = 0
                THEN [i \in 1..Len(clients) |-> clients[i][1]] ELSE <<>>,
     outs |-> acc.outs, sent |-> acc.sent, out |-> out]

\* finally: for _, client in clients: client.close()
CloseAll(a, clients, acc, out) ==
    [invoked |-> <<<<"get_authenticated_clients", a.region>>>>,
     clients |-> [i \in 1..Len(clients) |-> clients[i][1]],
     closed |-> [i \in 1..Len(clients) |-> clients[i][1]],
     outs |-> acc.outs, sent |-> acc.sent, out |-> out]

Closing(cmd, a, clients, acc) == CloseAll(a, clients, acc, FanDone(cmd, clients, acc))

\* the command from _load_clients on; an exception of the load is not caught
FanOut(cmd, a, st, loaded) ==
    IF loaded.kind = "raise"
    THEN [invoked |-> <<<<"get_authenticated_clients", a.region>>>>,
          clients |-> <<>>, closed |-> <<>>, outs |-> <<>>, sent |-> <<>>,
          out |-> loaded]
    ELSE Closing(cmd, a, loaded.value,
                 FanLoop(cmd, a, st, loaded.value, 1, NoRegions))

list_devices(st, a) == FanOut("devices", a, st, _load_clients(st, a.region))

status(st, a) == FanOut("status", a, st, _load_clients(st, a.region))

\* a variant that sends the label as the code when the table has no such label
mode_Unchecked(st, a) ==
    FanOut("mode",
           [code |-> Or(CodeOf(DEVICE_MODES(a.device_type), {a.mode}), a.mode)] @@ a,
           st, _load_clients(st, a.region))

mode(st, a) ==
    IF CodeOf(DEVICE_MODES(a.device_type), {a.mode}) = None
    THEN Rejected("Invalid mode '" \o a.mode \o "'. Valid modes: "
                  \o Labels(DEVICE_MODES(a.device_type)))
    ELSE FanOut("mode", [code |-> CodeOf(DEVICE_MODES(a.device_type), {a.mode})] @@ a,
                st, _load_clients(st, a.region))

action(st, a) ==
    IF CodeOf(DEVICE_ACTIONS(a.device_type), {a.action}) = None
    THEN Rejected("Invalid action '" \o a.action \o "'. Valid actions: "
                  \o Labels(DEVICE_ACTIONS(a.device_type)))
    ELSE FanOut("action",
                [code |-> CodeOf(DEVICE_ACTIONS(a.device_type), {a.action})] @@ a,
                st, _load_clients(st, a.region))

logs(st, a) == FanOut("logs", a, st, _load_clients(st, a.region))

clean(st, a) ==
    IF CodeOf(DEVICE_ACTIONS(a.device_type), {"start", "clean"}) = None
    THEN Rejected("Clean action not available for this device type.")
    ELSE FanOut("clean",
                [code |-> CodeOf(DEVICE_ACTIONS(a.device_type), {"start", "clean"})] @@ a,
                st, _load_clients(st, a.region))

pause(st, a) == FanOut("pause", a, st, _load_clients(st, a.region))

feed(st, a) == FanOut("feed", a, st, _load_clients(st, a.region))

reset_litter(st, a) == FanOut("reset-litter", a, st, _load_clients(st, a.region))

reset_deodorant(st, a) == FanOut("reset-deodorant", a, st, _load_clients(st, a.region))

change_bag(st, a) == FanOut("change-bag", a, st, _load_clients(st, a.region))

list_cats(st, a) == FanOut("cats", a, st, _load_clients(st, a.region))

\* a.date is the --date option, or today's date when the option is absent
cat_summary(st, a) == FanOut("cat-summary", a, st, _load_clients(st, a.region))

(***************************************************************************)
(* SpecCli: the fan-out commands against a keyring with no, one and two    *)
(* regions; every region's server answers on its own                       *)
(***************************************************************************)
CliStores == {EmptyStore, StoreGlobal, StoreTwo}

\* --region: absent, or a region name
CliRegionOptions == {None, "china"}

\* what a region's server answers to a command that reads: <<first reply,
\* reply to the re-login, reply to the retry>>
ReadScripts(full, empty) ==
    {<<Ok(full), Transport, Transport>>, <<Ok(empty), Transport, Transport>>,
     <<Failed, Transport, Transport>>, <<Transport, Transport, Transport>>,
     <<NonJson, Transport, Transport>>, <<Expired, LoginOk(TokA), Ok(full)>>,
     <<Expired, LoginBad, Transport>>}

\* what a region's server answers to a command that writes
WriteScripts == {<<r>> : r \in {Ok(NoDict), Failed, Expired, Transport, NonJson}}

\* the options shared by the commands, with the replies of two regions
CliArgs(region, rs1, rs2) ==
    [region |-> region, pad |-> "r1", now |-> 1, replies |-> <<rs1, rs2>>]

\* a command runs to completion: r is its record
RunFanOut(op, a, r) ==
    /\ call = NoCall
    /\ call' = [op |-> op, args |-> a, stored |-> store, invoked |-> r.invoked,
                clients |-> r.clients, closed |-> r.closed, outs |-> r.outs,
                sent |-> r.sent, out |-> r.out]
    /\ UNCHANGED <<api_base, token, store>>

CliDevices ==
    \E region \in CliRegionOptions,
       rs1 \in ReadScripts([devices |-> <<Scooper1, Feeder2>>], [devices |-> <<>>]),
       rs2 \in ReadScripts([devices |-> <<Feeder2>>], [devices |-> <<>>]) :
        RunFanOut("devices", CliArgs(region, rs1, rs2),
                  list_devices(store, CliArgs(region, rs1, rs2)))

DetailData == [deviceInfo |-> [online |-> "true", workStatus |-> "01 ",
                               workModel |-> "00", temperature |-> "-",
                               manualTimes |-> 2]]

CliStatus ==
    \E region \in CliRegionOptions, ty \in {"SCOOPER", "FEEDER"},
       rs1 \in ReadScripts(DetailData, NoDict), rs2 \in ReadScripts(DetailData, NoDict) :
        RunFanOut("status",
                  [device_id |-> "d1", device_type |-> ty] @@ CliArgs(region, rs1, rs2),
                  status(store, [device_id |-> "d1", device_type |-> ty]
                                    @@ CliArgs(region, rs1, rs2)))

CliMode ==
    \E region \in CliRegionOptions, ty \in DeviceTypes,
       label \in {"auto", "empty", "turbo", "00"},
       rs1 \in WriteScripts, rs2 \in WriteScripts :
        RunFanOut("mode",
                  [device_id |-> "d1", device_type |-> ty, mode |-> label]
                      @@ CliArgs(region, rs1, rs2),
                  mode(store, [device_id |-> "d1", device_type |-> ty, mode |-> label]
                                  @@ CliArgs(region, rs1, rs2)))

CliAction ==
    \E region \in CliRegionOptions, ty \in DeviceTypes,
       label \in {"pause", "clean", "start", "01"},
       rs1 \in WriteScripts, rs2 \in WriteScripts :
        RunFanOut("action",
                  [device_id |-> "d1", device_type |-> ty, action |-> label]
                      @@ CliArgs(region, rs1, rs2),
                  action(store, [device_id |-> "d1", device_type |-> ty, action |-> label]
                                    @@ CliArgs(region, rs1, rs2)))

LogsData == [logs |-> <<[time |-> "09:00", event |-> "clean", firstSection |-> "4.2kg"],
                        [createTime |-> "10:00", msg |-> "refill"]>>]

CliLogs ==
    \E region \in CliRegionOptions, ty \in {"SCOOPER", "PUREPRO"},
       rs1 \in ReadScripts(LogsData, NoDict), rs2 \in ReadScripts(LogsData, NoDict) :
        RunFanOut("logs",
                  [device_id |-> "d1", device_type |-> ty] @@ CliArgs(region, rs1, rs2),
                  logs(store, [device_id |-> "d1", device_type |-> ty]
                                  @@ CliArgs(region, rs1, rs2)))

\* a command that takes a device and a device type and writes
DeviceArgs(ty, region, rs1, rs2) ==
    [device_id |-> "d1", device_type |-> ty] @@ CliArgs(region, rs1, rs2)

CliClean ==
    \E region \in CliRegionOptions, ty \in DeviceTypes,
       rs1 \in WriteScripts, rs2 \in WriteScripts :
        RunFanOut("clean", DeviceArgs(ty, region, rs1, rs2),
                  clean(store, DeviceArgs(ty, region, rs1, rs2)))

CliPause ==
    \E region \in CliRegionOptions, ty \in DeviceTypes,
       rs1 \in WriteScripts, rs2 \in WriteScripts :
        RunFanOut("pause", DeviceArgs(ty, region, rs1, rs2),
                  pause(store, DeviceArgs(ty, region, rs1, rs2)))

CliFeed ==
    \E region \in CliRegionOptions, portions \in {1, 5},
       rs1 \in WriteScripts, rs2 \in WriteScripts :
        RunFanOut("feed",
                  [device_id |-> "d1", portions |-> portions] @@ CliArgs(region, rs1, rs2),
                  feed(store, [device_id |-> "d1", portions |-> portions]
                                  @@ CliArgs(region, rs1, rs2)))

CliResetLitter ==
    \E region \in CliRegionOptions, ty \in DeviceTypes,
       rs1 \in WriteScripts, rs2 \in WriteScripts :
        RunFanOut("reset-litter", DeviceArgs(ty, region, rs1, rs2),
                  reset_litter(store, DeviceArgs(ty, region, rs1, rs2)))

CliResetDeodorant ==
    \E region \in CliRegionOptions, ty \in DeviceTypes,
       rs1 \in WriteScripts, rs2 \in WriteScripts :
        RunFanOut("reset-deodorant", DeviceArgs(ty, region, rs1, rs2),
                  reset_deodorant(store, DeviceArgs(ty, region, rs1, rs2)))

CliChangeBag ==
    \E region \in CliRegionOptions, rs1 \in WriteScripts, rs2 \in WriteScripts :
        RunFanOut("change-bag", [device_id |-> "d1"] @@ CliArgs(region, rs1, rs2),
                  change_bag(store, [device_id |-> "d1"] @@ CliArgs(region, rs1, rs2)))

CatsData == [cats |-> <<[id |-> "c1", name |-> "Tom", weight |-> "4.2"],
                        [petId |-> "c2", petName |-> "Mia", breed |-> "Siamese"]>>]

CliCats ==
    \E region \in CliRegionOptions, tz \in {"UTC", "Europe/London"},
       rs1 \in ReadScripts(CatsData, NoDict), rs2 \in ReadScripts(CatsData, NoDict) :
        RunFanOut("cats", [timezone_id |-> tz] @@ CliArgs(region, rs1, rs2),
                  list_cats(store, [timezone_id |-> tz] @@ CliArgs(region, rs1, rs2)))

CliCatSummary ==
    \E region \in CliRegionOptions,
       rs1 \in ReadScripts([weight |-> "4.2"], NoDict),
       rs2 \in ReadScripts([weight |-> "4.2"], NoDict) :
        RunFanOut("cat-summary",
                  [pet_id |-> "c1", date |-> "2024-01-01", timezone_id |-> "UTC"]
                      @@ CliArgs(region, rs1, rs2),
                  cat_summary(store,
                              [pet_id |-> "c1", date |-> "2024-01-01",
                               timezone_id |-> "UTC"] @@ CliArgs(region, rs1, rs2)))

InitCli ==
    /\ api_base = DEFAULT_API_BASE
    /\ token = ""
    /\ store \in CliStores
    /\ call = NoCall

NextCli ==
    \/ CliDevices
    \/ CliStatus
    \/ CliMode
    \/ CliAction
    \/ CliLogs
    \/ CliClean
    \/ CliPause
    \/ CliFeed
    \/ CliResetLitter
    \/ CliResetDeodorant
    \/ CliChangeBag
    \/ CliCats
    \/ CliCatSummary
    \/ CommandExit

SpecCli == InitCli /\ [][NextCli]_vars

(***************************************************************************)
(* Observations on a fan-out command that has ended                        *)
(***************************************************************************)
FanOutCommands ==
    {"devices", "status", "mode", "action", "logs", "clean", "pause", "feed",
     "reset-litter", "reset-deodorant", "change-bag", "cats", "cat-summary"}

\* the status of the process: that of sys.exit, or 1 when an exception that
\* nothing caught ended the interpreter
ExitStatus(out) == IF out.kind = "exit" THEN out.code ELSE 1

\* the client's call in the i-th region returned, or raised
SucceededIn(i) == call.outs[i].kind = "return"

FailedIn(i) == call.outs[i].kind = "raise"

Reached == 1..Len(call.outs)

(***************************************************************************)
(* C23.  A mode command whose label is not a label of the device type's    *)
(* mode table, and an action command whose label is not a label of the     *)
(* device type's action table, exit with a non-zero status before any      *)
(* credential is loaded, any client is created and any request is made.    *)
(***************************************************************************)
ModeLabels(device_type) ==
    IF device_type = "SCOOPER" THEN {"auto", "manual", "time", "empty"}
    ELSE {"auto", "manual", "time"}

ActionLabels(device_type) ==
    IF device_type = "SCOOPER" THEN {"pause", "start"} ELSE {"clean", "pause"}

Unrecognized ==
    \/ call.op = "mode" /\ call.args.mode \notin ModeLabels(call.args.device_type)
    \/ call.op = "action" /\ call.args.action \notin ActionLabels(call.args.device_type)

C23_InvalidLabelExitsFirst ==
    Unrecognized =>
        /\ call.out.kind = "exit"
        /\ call.out.code # 0
        /\ call.invoked = <<>>
        /\ call.clients = <<>>
        /\ call.sent = <<>>

C23_Witness ==
    /\ call.op = "mode"
    /\ call.args.mode = "empty"
    /\ call.args.device_type = "LITTER_BOX_599"
    /\ call.stored = StoreTwo
    /\ call.out = Exit(1, <<>>, <<"Invalid mode 'empty'. Valid modes: auto, manual, time">>)
    /\ call.invoked = <<>>

(***************************************************************************)
(* C24.  A fan-out command exits 0 whenever its operation succeeded in at  *)
(* least one targeted region, whatever happened in the other regions, and  *)
(* exits 1 when the operation failed in every targeted region.             *)
(***************************************************************************)
C24_ExitCodeConvention ==
    call.op \in FanOutCommands /\ Len(call.clients) > 0 =>
        /\ (\E i \in Reached : SucceededIn(i)) => ExitStatus(call.out) = 0
        /\ (Len(call.outs) = Len(call.clients) /\ \A i \in Reached : FailedIn(i))
               => ExitStatus(call.out) = 1

(***************************************************************************)
(* C25.  In a fan-out command over several regions, whenever at least one  *)
(* region fails and at least one does not, a warning naming each failed    *)
(* region and its error is printed and the command does not end in a hard  *)
(* error; the hard error (exit 1 with the message listing the regions'     *)
(* errors) is produced only when every region failed.                      *)
(***************************************************************************)
WarningFor(i) == "Warning (" \o call.clients[i] \o "): " \o StrExc(call.outs[i].exc)

C25_PartialFailuresWarn ==
    call.op \in FanOutCommands /\ Len(call.clients) > 1 =>
        /\ ((\E i \in Reached : FailedIn(i)) /\ (\E i \in Reached : SucceededIn(i)))
               => /\ call.out.kind = "exit"
                  /\ call.out.code = 0
                  /\ \A i \in Reached :
                         FailedIn(i) =>
                             \E k \in 1..Len(call.out.stderr) :
                                 call.out.stderr[k] = WarningFor(i)
        /\ (call.out.kind = "exit" /\ call.out.code = 1)
               => /\ Len(call.outs) = Len(call.clients)
                  /\ \A i \in Reached : FailedIn(i)

(***************************************************************************)
(* C30.  Every client a fan-out command loads is closed when the command   *)
(* ends, whether all regions succeeded, some failed, all failed, or an     *)
(* exception that the loop does not catch left it; a client of a later     *)
(* region is not left open because an earlier region failed.               *)
(***************************************************************************)
C30_ClientsClosed ==
    call.op \in FanOutCommands =>
        \A i \in 1..Len(call.clients) :
            \E k \in 1..Len(call.closed) : call.closed[k] = call.clients[i]

C30_Witness ==
    /\ call.op = "devices"
    /\ call.clients = <<"global", "china">>
    /\ Len(call.outs) = 1
    /\ call.out = Raise(HTTPError)
    /\ call.closed = <<"global", "china">>

(***************************************************************************)
(* C26.  The login command with region "auto" invokes the save once for    *)
(* each region whose login succeeded, with that region's token and base    *)
(* URL and the entered phone, country code and verify flag, prints the     *)
(* failed regions as warnings and exits 0; when no region succeeds it      *)
(* saves nothing, prints an error listing the regions' failures and exits  *)
(* non-zero; it closes its client in every case.                           *)
(***************************************************************************)
SuccessfulRegions == {i \in 1..Len(call.sent) : LoginSucceeded(call.sent[i].reply)}

SaveFor(i) ==
    <<call.sent[i].reply.body.data.token, call.args.phone, call.args.phone_iac,
      API_SERVERS[i][2], call.args.verify>>

C26_AutoLoginSaves ==
    call.op = "cli login" /\ call.args.region = "auto" =>
        /\ call.closed
        /\ SuccessfulRegions # {} =>
               /\ \A i \in SuccessfulRegions :
                      Cardinality({k \in 1..Len(call.saves) : call.saves[k] = SaveFor(i)}) = 1
               /\ Len(call.saves) = Cardinality(SuccessfulRegions)
               /\ call.out.kind = "exit"
               /\ call.out.code = 0
               /\ \A i \in 1..Len(call.sent) :
                      i \notin SuccessfulRegions =>
                          \E k \in 1..Len(call.out.stderr) :
                              call.out.stderr[k] =
                                  "Warning (" \o API_SERVERS[i][1] \o "): "
                                      \o ReasonOf(call.sent[i].reply)
        /\ SuccessfulRegions = {} =>
               /\ call.saves = <<>>
               /\ store = call.stored
               /\ call.out.kind = "exit"
               /\ call.out.code # 0
               /\ call.out.stderr =
                      <<"Error: Login failed on all regions: "
                        \o join("; ", [i \in 1..Len(call.sent) |-> RegionReason(i)])>>

(***************************************************************************)
(* C27.  After a successful re-login inside _request_with_reauth the       *)
(* retried call is built from the new token: its "token" header, its       *)
(* "token" parameter and its signature use the token the re-login          *)
(* returned, not the expired token of the first dispatch, and the client's *)
(* token is the new token when the operation returns.                      *)
(***************************************************************************)
IssuedBy(x) == x.reply.body.data.token

\* request x carries token tok in its header, its parameters and its signature
Carries(x, tok) ==
    /\ x.headers.token = tok
    /\ DictGet(x.pms, "token") = tok
    /\ DictGet(x.pms, "sign") = _params_sign(WithoutKey(x.pms, "sign"))

C27_RetryUsesNewToken ==
    /\ call.op \in TypedOps \cup SingleReauthOps =>
           \A i \in 1..Len(call.sent) :
               (/\ i > 1
                /\ i < Len(call.sent)
                /\ IsLogin(call.sent[i])
                /\ LoginSucceeded(call.sent[i].reply)) =>
                   /\ SameCall(call.sent[i - 1], call.sent[i + 1])
                   /\ Carries(call.sent[i + 1], IssuedBy(call.sent[i]))
                   /\ IssuedBy(call.sent[i]) # call.sent[i - 1].headers.token
                          => call.sent[i + 1].headers.token
                                 # call.sent[i - 1].headers.token
    /\ (call.op \in SingleReauthOps /\ Retried /\ LoginSucceeded(call.sent[2].reply)) =>
           /\ call.sent[1].headers.token = call.before.token
           /\ token = IssuedBy(call.sent[2])

C27_Witness ==
    /\ call.op = "get_cats"
    /\ Retried
    /\ call.before.token = TokOld
    /\ Carries(call.sent[1], TokOld)
    /\ IssuedBy(call.sent[2]) = TokA
    /\ Carries(call.sent[3], TokA)
    /\ token = TokA

(***************************************************************************)
(* SpecSession: the operations of Spec together with login called         *)
(* directly, on a client that holds a token                                *)
(***************************************************************************)
NextSession == Next \/ Login

SpecSession == Init /\ [][NextSession]_vars

(***************************************************************************)
(* C28.  Whenever login raises because the response carries no token or    *)
(* because of a transport error, the client's token is empty afterwards:   *)
(* the token held before the call is not restored.  When the re-login      *)
(* inside _request_with_reauth fails, the original call is not retried,    *)
(* the error of the login (not a token-expired error) is raised, and the   *)
(* client is left without a token.                                         *)
(***************************************************************************)
\* the error login raises for a reply that is a failure
LoginError(reply) ==
    IF reply.kind = "transport"
    THEN [type |-> "httpx.HTTPError", message |-> "connection failed", code |-> 0]
    ELSE [type |-> "CatLinkAPIError", message |-> ReasonOf(reply), code |-> 0]

C28_FailedLoginClearsToken ==
    /\ (call.op = "login" /\ LoginFailed(call.sent[1].reply)) =>
           /\ call.out = Raise(LoginError(call.sent[1].reply))
           /\ token = ""
    /\ (/\ call.op \in SingleReauthOps
        /\ Len(call.sent) >= 2
        /\ IsLogin(call.sent[2])
        /\ LoginFailed(call.sent[2].reply)) =>
           /\ Len(call.sent) = 2
           /\ call.out = Raise(LoginError(call.sent[2].reply))
           /\ call.out.exc.code # 1002
           /\ token = ""

C28_Witness ==
    /\ call.op = "get_device_detail"
    /\ FirstExpired
    /\ Len(call.sent) = 2
    /\ call.sent[2].reply = Transport
    /\ call.before.token = TokOld
    /\ call.out = Raise(HTTPError)
    /\ token = ""

(***************************************************************************)
(* C29.  After login_all_regions returns, the client's api_base is the     *)
(* base URL of the last region of the table and its token is the last      *)
(* region's token if that login succeeded and empty otherwise, whichever   *)
(* earlier regions succeeded; the tokens of the successful regions are in  *)
(* the returned success list.  After login_auto_region has failed in every *)
(* region the api_base is the last region's URL and the token is empty.    *)
(***************************************************************************)
LastRegion == Len(API_SERVERS)

C29_SessionIsLastRegion ==
    /\ (call.op = "login_all_regions" /\ call.out.kind = "return") =>
           /\ Len(call.sent) = LastRegion
           /\ api_base = API_SERVERS[LastRegion][2]
           /\ token = IF LoginSucceeded(call.sent[LastRegion].reply)
                      THEN IssuedBy(call.sent[LastRegion]) ELSE ""
           /\ \A i \in 1..LastRegion :
                  LoginSucceeded(call.sent[i].reply) =>
                      \E j \in 1..Len(call.out.value[1]) :
                          call.out.value[1][j] =
                              <<API_SERVERS[i][1], API_SERVERS[i][2],
                                IssuedBy(call.sent[i])>>
    /\ (/\ call.op = "login_auto_region"
        /\ Len(call.sent) = LastRegion
        /\ \A i \in 1..LastRegion : LoginFailed(call.sent[i].reply)) =>
           /\ call.out.kind = "raise"
           /\ api_base = API_SERVERS[LastRegion][2]
           /\ token = ""

C29_Witness ==
    /\ call.op = "login_all_regions"
    /\ call.before.token = TokOld
    /\ LoginSucceeded(call.sent[1].reply)
    /\ IssuedBy(call.sent[1]) = TokA
    /\ call.sent[LastRegion].reply = Transport
    /\ api_base = API_SERVERS[LastRegion][2]
    /\ token = ""

====
